------------------------- MODULE BufferCoherenceProofs -------------------------
(***************************************************************************)
(* Proofs about BufferCoherence, for any number of pages, guest threads,   *)
(* images and pending downloads: the watchers and the host protection of   *)
(* every page are exact, and nobody reads a stale value.                   *)
(***************************************************************************)
EXTENDS BufferCoherence, FiniteSetTheorems, SequenceTheorems, WellFoundedInduction, TLAPS

-----------------------------------------------------------------------------
(***************************************************************************)
(* Recursion and induction on sets, in place of operators.                 *)
(***************************************************************************)

\* Induction along a prefix of the natural numbers.
LEMMA PrefixInduction ==
    ASSUME NEW N \in Nat, NEW T, 0 \in T, \A n \in 1 .. N : n - 1 \in T => n \in T
    PROVE  \A n \in 0 .. N : n \in T
<1> DEFINE F == {n \in 0 .. N : n \notin T}
           R == {ss \in Nat \X Nat : ss[1] < ss[2]}
<1>1. SUFFICES ASSUME F # {} PROVE FALSE
  OBVIOUS
<1>2. IsWellFoundedOn(R, Nat)
  BY NatLessThanWellFounded DEF OpToRel
<1>3. PICK x \in F : \A y \in F : ~ (<<y, x>> \in R)
  <2>1. F \subseteq Nat
    OBVIOUS
  <2> HIDE DEF F, R
  <2>2. QED
    BY <1>1, <1>2, <2>1, WFMin
<1>4. x \in 1 .. N /\ x - 1 \in 0 .. N /\ <<x - 1, x>> \in R
  OBVIOUS
<1>5. x - 1 \in T
  BY <1>3, <1>4
<1>6. QED
  BY <1>4, <1>5

\* Each value of g along 1..N is a step of F after the value before it.
Follows(g, N, F) == \A i \in 1 .. N : g[i] = F[i][g[i - 1]]

\* A function defined along 0..N by a step per number exists.
LEMMA StepsExist ==
    ASSUME NEW N \in Nat, NEW X, NEW x0 \in X, NEW F \in [1 .. N -> [X -> X]]
    PROVE  \E g \in [0 .. N -> X] : g[0] = x0 /\ Follows(g, N, F)
<1> DEFINE Good(n) == \E g \in [0 .. n -> X] :
                         g[0] = x0 /\ \A i \in 1 .. n : g[i] = F[i][g[i - 1]]
           T == {n \in 0 .. N : Good(n)}
<1>1. Good(0)
  <2> DEFINE g == [i \in 0 .. 0 |-> x0]
  <2>1. g \in [0 .. 0 -> X] /\ g[0] = x0 /\ \A i \in 1 .. 0 : g[i] = F[i][g[i - 1]]
    OBVIOUS
  <2> HIDE DEF g
  <2>2. QED
    BY <2>1
<1>2. ASSUME NEW n \in 1 .. N, Good(n - 1)
      PROVE  Good(n)
  <2>1. PICK g \in [0 .. n - 1 -> X] :
            g[0] = x0 /\ \A i \in 1 .. n - 1 : g[i] = F[i][g[i - 1]]
    BY <1>2
  <2> DEFINE h == [i \in 0 .. n |-> IF i < n THEN g[i] ELSE F[n][g[n - 1]]]
  <2>2. h \in [0 .. n -> X]
    <3>1. F[n] \in [X -> X] /\ g[n - 1] \in X
      OBVIOUS
    <3>2. F[n][g[n - 1]] \in X
      BY <3>1
    <3>3. QED
      BY <3>2
  <2>3. h[0] = x0
    BY <2>1
  <2>4. ASSUME NEW i \in 1 .. n
        PROVE  h[i] = F[i][h[i - 1]]
    <3>1. CASE i < n
      <4>1. h[i] = g[i] /\ h[i - 1] = g[i - 1] /\ i \in 1 .. n - 1
        BY <3>1
      <4>2. QED
        BY <2>1, <4>1
    <3>2. CASE i = n
      BY <3>2
    <3>3. QED
      BY <3>1, <3>2
  <2> HIDE DEF h
  <2>5. QED
    BY <2>2, <2>3, <2>4
<1> HIDE DEF Good
<1>3. 0 \in T
  BY <1>1
<1>4. \A n \in 1 .. N : n - 1 \in T => n \in T
  BY <1>2
<1>5. \A n \in 0 .. N : n \in T
  <2> HIDE DEF T
  <2>1. QED
    BY <1>3, <1>4, PrefixInduction
<1>6. N \in T
  BY <1>5
<1>7. QED
  BY <1>6 DEF Good, Follows

\* Induction over the subsets of a finite set.
LEMMA SubsetInduction ==
    ASSUME NEW S, IsFiniteSet(S), NEW T, {} \in T,
           \A s \in SUBSET S : s # {} /\ (\A x \in s : s \ {x} \in T) => s \in T
    PROVE  S \in T
<1> DEFINE N == Cardinality(S)
           C == {n \in 0 .. N : \A s \in SUBSET S : Cardinality(s) = n => s \in T}
<1>0. N \in Nat /\ \A s \in SUBSET S : IsFiniteSet(s) /\ Cardinality(s) \in Nat
  BY FS_CardinalityType, FS_Subset
<1>1. 0 \in C
  <2>1. \A s \in SUBSET S : Cardinality(s) = 0 => s = {}
    BY <1>0, FS_EmptySet
  <2>2. \A s \in SUBSET S : Cardinality(s) = 0 => s \in T
    BY <2>1
  <2>3. 0 \in 0 .. N
    <3> HIDE DEF N
    <3>1. QED
      BY <1>0
  <2>4. QED
    BY <2>2, <2>3
<1>2. ASSUME NEW n \in 1 .. N, n - 1 \in C
      PROVE  n \in C
  <2> SUFFICES ASSUME NEW s \in SUBSET S, Cardinality(s) = n PROVE s \in T
    OBVIOUS
  <2>1. s # {}
    BY <1>0, FS_EmptySet
  <2>2. ASSUME NEW x \in s
        PROVE  s \ {x} \in T
    <3>1. Cardinality(s \ {x}) = n - 1
      BY <1>0, FS_RemoveElement
    <3>2. QED
      BY <1>2, <3>1
  <2>3. QED
    BY <2>1, <2>2
<1>3. \A n \in 0 .. N : n \in C
  <2> HIDE DEF C, N
  <2>1. QED
    BY <1>0, <1>1, <1>2, PrefixInduction
<1>4. N \in C
  BY <1>0, <1>3
<1>5. QED
  BY <1>4

-----------------------------------------------------------------------------
(***************************************************************************)
(* The page manager.                                                       *)
(***************************************************************************)

Protections == {"rw", "ro", "none"}

PageState == [write : [Pages -> Nat], access : [Pages -> Nat], prot : [Pages -> Protections]]

\* The host protects every page by its watchers.
Exact(s) == s \in PageState /\ \A p \in Pages : s.prot[p] = Perms(s, p)

RunState == [perms : Protections, begin : Nat, bytes : Nat, potential : Nat,
             prot : [Pages -> Protections]]

\* The pages a pending Protect call would cover.
RunPages(r) == r.begin .. (r.begin + r.bytes - 1)

\* The walk has come to page p: the pages before it have their new protection or are in the
\* pending run, all pages since the run began have the same new protection, and the pages
\* outside of the walk are left alone.
WalkInv(r, s, t, first, p) ==
    /\ r \in RunState
    /\ \A q \in Pages : q \notin first .. p => r.prot[q] = s.prot[q]
    /\ \A q \in first .. p : q \in RunPages(r) \/ r.prot[q] = Perms(t, q)
    /\ p >= first => r.perms = Perms(t, p)
    /\ r.bytes # 0 =>
         /\ r.begin >= first /\ r.begin + r.potential - 1 = p /\ r.bytes <= r.potential
         /\ \A q \in r.begin .. p : Perms(t, q) = r.perms

\* PageState::Perms answers a protection.
LEMMA PermsType == ASSUME NEW s, NEW p PROVE Perms(s, p) \in Protections
BY DEF Perms, Protections

\* release_pending leaves a run without pages, and the protection a map of the pages.
LEMMA ReleasedType ==
    ASSUME NEW r \in RunState
    PROVE  /\ Released(r) \in RunState /\ Released(r).bytes = 0 /\ Released(r).perms = r.perms
           /\ \A q \in Pages : Released(r).prot[q] = IF q \in RunPages(r) THEN r.perms
                                                      ELSE r.prot[q]
<1>0. LastPage \in Nat
  BY LastPageAssumption
<1>1. CASE r.bytes = 0
  <2>1. RunPages(r) = {}
    BY <1>1 DEF RunPages, RunState
  <2>2. QED
    BY <1>1, <2>1 DEF Released
<1>2. CASE r.bytes # 0
  BY <1>2 DEF Released, RunState, RunPages, Pages
<1>3. QED
  BY <1>1, <1>2

\* One page of the walk keeps the form of a run.
LEMMA VisitedType ==
    ASSUME NEW r \in RunState, NEW p \in Nat, NEW perms \in Protections, NEW edge
    PROVE  Visited(r, p, perms, edge) \in RunState
<1>1. Released(r) \in RunState
  BY ReleasedType
<1>2. Extended(r, perms) \in RunState
  BY <1>1 DEF Extended, RunState
<1>3. QED
  BY <1>2 DEF Visited, RunState

\* run is the run found so far at each page of the walk.
IsWalk(run, s, t, first, last, edges) ==
    /\ run[first - 1] = [perms |-> Perms(s, first), begin |-> 0, bytes |-> 0,
                         potential |-> 0, prot |-> s.prot]
    /\ \A p \in first .. last : run[p] = Visited(run[p - 1], p, Perms(t, p), p \in edges)

\* The recursive function of the walk exists: the run at each page is one visit after the
\* run at the page before it.
LEMMA WalkEquations ==
    ASSUME NEW s \in PageState, NEW t, NEW first \in Pages, NEW last \in Pages,
           first <= last, NEW edges
    PROVE  IsWalk(Walk(s, t, first, last, edges), s, t, first, last, edges)
<1> DEFINE N == last - first + 1
           start == [perms |-> Perms(s, first), begin |-> 0, bytes |-> 0,
                     potential |-> 0, prot |-> s.prot]
           page(i) == first - 1 + i
           F == [i \in 1 .. N |-> [r \in RunState |->
                    Visited(r, page(i), Perms(t, page(i)), page(i) \in edges)]]
           Body(f) == [p \in (first - 1) .. last |->
                         IF p < first THEN start
                         ELSE Visited(f[p - 1], p, Perms(t, p), p \in edges)]
<1>0. first \in Nat /\ last \in Nat /\ N \in Nat
  BY LastPageAssumption DEF Pages
<1>1. start \in RunState
  BY PermsType DEF RunState, PageState
<1>2. F \in [1 .. N -> [RunState -> RunState]]
  <2>1. ASSUME NEW i \in 1 .. N, NEW r \in RunState
        PROVE  Visited(r, page(i), Perms(t, page(i)), page(i) \in edges) \in RunState
    <3>1. page(i) \in Nat
      BY <1>0
    <3> HIDE DEF page
    <3>2. QED
      BY <3>1, VisitedType, PermsType
  <2> HIDE DEF page, N
  <2>2. QED
    BY <2>1
<1>3. PICK g \in [0 .. N -> RunState] :
          g[0] = start /\ \A i \in 1 .. N : g[i] = F[i][g[i - 1]]
  <2>1. N \in Nat
    BY <1>0
  <2> HIDE DEF N, start, F
  <2>2. \E g \in [0 .. N -> RunState] : g[0] = start /\ Follows(g, N, F)
    BY <1>1, <1>2, <2>1, StepsExist
  <2>3. QED
    BY <2>2 DEF Follows
<1> DEFINE h == [p \in (first - 1) .. last |-> g[p - first + 1]]
<1>4. h = Body(h)
  <2>1. ASSUME NEW p \in first .. last
        PROVE  h[p] = Visited(h[p - 1], p, Perms(t, p), p \in edges)
    <3> DEFINE i == p - first + 1
    <3>1. i \in 1 .. N /\ i - 1 \in 0 .. N /\ page(i) = p /\ i - 1 = (p - 1) - first + 1
      BY <1>0
    <3>2. h[p] = g[i] /\ h[p - 1] = g[i - 1] /\ g[i - 1] \in RunState
      <4>1. p - 1 \in (first - 1) .. last /\ p \in (first - 1) .. last
        BY <1>0
      <4>2. QED
        BY <3>1, <4>1
    <3>3. g[i] = Visited(g[i - 1], page(i), Perms(t, page(i)), page(i) \in edges)
      <4>1. g[i] = F[i][g[i - 1]]
        BY <1>3, <3>1
      <4> HIDE DEF page, i
      <4>2. QED
        BY <3>1, <3>2, <4>1
    <3> HIDE DEF page, h, i
    <3>4. QED
      BY <3>1, <3>2, <3>3
  <2>2. h[first - 1] = start
    BY <1>0, <1>3
  <2>3. ASSUME NEW p \in (first - 1) .. last
        PROVE  h[p] = IF p < first THEN start
                      ELSE Visited(h[p - 1], p, Perms(t, p), p \in edges)
    <3> HIDE DEF h, start
    <3>1. p < first => p = first - 1
      BY <1>0
    <3>2. ~(p < first) => p \in first .. last
      BY <1>0
    <3>3. QED
      BY <2>1, <2>2, <3>1, <3>2
  <2>4. QED
    BY <2>3
<1>5. Walk(s, t, first, last, edges) = CHOOSE f : f = Body(f)
  BY DEF Walk
<1> DEFINE run == Walk(s, t, first, last, edges)
<1>6. run = Body(run)
  <2> HIDE DEF Body, h
  <2>1. QED
    BY <1>4, <1>5
<1>7. run[first - 1] = start
  <2> HIDE DEF run, start
  <2>1. first - 1 \in (first - 1) .. last
    BY <1>0
  <2>2. QED
    BY <1>0, <1>6, <2>1
<1>8. ASSUME NEW p \in first .. last
      PROVE  run[p] = Visited(run[p - 1], p, Perms(t, p), p \in edges)
  <2> HIDE DEF run, start
  <2>1. p \in (first - 1) .. last /\ ~(p < first)
    BY <1>0
  <2>2. QED
    BY <1>6, <2>1
<1>9. QED
  BY <1>7, <1>8 DEF IsWalk

\* release_pending gives out a run whose pages have the same new protection.
LEMMA ReleasedKeepsWalk ==
    ASSUME NEW r, NEW s, NEW t, NEW first \in Pages, NEW p \in (first - 1) .. LastPage,
           WalkInv(r, s, t, first, p)
    PROVE  /\ WalkInv(Released(r), s, t, first, p)
           /\ \A q \in first .. p : Released(r).prot[q] = Perms(t, q)
<1>0. first \in Nat /\ LastPage \in Nat /\ p \in Int /\ p <= LastPage
  BY LastPageAssumption DEF Pages
<1>1. r \in RunState
  BY DEF WalkInv
<1> DEFINE u == Released(r)
<1>2. /\ u \in RunState /\ u.bytes = 0 /\ u.perms = r.perms
      /\ \A q \in Pages : u.prot[q] = IF q \in RunPages(r) THEN r.perms ELSE r.prot[q]
  BY <1>1, ReleasedType
<1> HIDE DEF u
<1>3. ASSUME NEW q \in RunPages(r)
      PROVE  q \in first .. p /\ Perms(t, q) = r.perms
  <2>1. r.bytes # 0 /\ r.begin <= q /\ q <= r.begin + r.bytes - 1
    BY <1>1 DEF RunPages, RunState
  <2>2. /\ r.begin >= first /\ r.begin + r.potential - 1 = p /\ r.bytes <= r.potential
        /\ \A x \in r.begin .. p : Perms(t, x) = r.perms
    BY <2>1 DEF WalkInv
  <2>3. q \in r.begin .. p /\ q \in first .. p
    BY <1>0, <1>1, <2>1, <2>2 DEF RunPages, RunState
  <2>4. QED
    BY <2>2, <2>3
<1>4. \A q \in first .. p : q \in Pages
  BY <1>0 DEF Pages
<1>5. ASSUME NEW q \in first .. p
      PROVE  u.prot[q] = Perms(t, q)
  <2>1. q \in RunPages(r) \/ r.prot[q] = Perms(t, q)
    BY DEF WalkInv
  <2>2. QED
    BY <1>2, <1>3, <1>4, <2>1
<1>6. ASSUME NEW q \in Pages, q \notin first .. p
      PROVE  u.prot[q] = s.prot[q]
  <2>1. r.prot[q] = s.prot[q]
    BY <1>6 DEF WalkInv
  <2>2. QED
    BY <1>2, <1>3, <1>6, <2>1
<1>7. p >= first => r.perms = Perms(t, p)
  BY DEF WalkInv
<1>8. WalkInv(u, s, t, first, p)
  BY <1>2, <1>5, <1>6, <1>7 DEF WalkInv
<1>9. QED
  BY <1>5, <1>8 DEF u

\* One page of the walk: a page that is no edge has its new protection already.
LEMMA VisitKeepsWalk ==
    ASSUME NEW s, NEW t, NEW first \in Pages, NEW p \in first .. LastPage, NEW r,
           WalkInv(r, s, t, first, p - 1), NEW edge \in BOOLEAN,
           ~edge => s.prot[p] = Perms(t, p)
    PROVE  WalkInv(Visited(r, p, Perms(t, p), edge), s, t, first, p)
<1>0. first \in Nat /\ LastPage \in Nat /\ p \in Nat /\ p - 1 \in (first - 1) .. LastPage
      /\ p \in Pages /\ first <= p
  BY LastPageAssumption DEF Pages
<1>1. r \in RunState
  BY DEF WalkInv
<1> DEFINE e == Extended(r, Perms(t, p))
           v == Visited(r, p, Perms(t, p), edge)
\* After the protection of the page is known, and before its edge.
<1>2. /\ e \in RunState /\ e.perms = Perms(t, p)
      /\ \A q \in Pages : q \notin first .. (p - 1) => e.prot[q] = s.prot[q]
      /\ \A q \in first .. (p - 1) : q \in RunPages(e) \/ e.prot[q] = Perms(t, q)
      /\ e.bytes # 0 =>
           /\ e.begin >= first /\ e.begin + e.potential - 1 = p /\ e.bytes <= e.potential - 1
           /\ \A q \in e.begin .. p : Perms(t, q) = e.perms
  <2>1. CASE Perms(t, p) # r.perms
    <3> DEFINE u == Released(r)
    <3>1. u \in RunState /\ u.bytes = 0
      BY <1>1, ReleasedType
    <3>2. WalkInv(u, s, t, first, p - 1)
      BY <1>0, ReleasedKeepsWalk
    <3>2a. \A q \in first .. (p - 1) : u.prot[q] = Perms(t, q)
      BY <1>0, ReleasedKeepsWalk
    <3> HIDE DEF u
    <3>3. e = [u EXCEPT !.perms = Perms(t, p)]
      BY <2>1 DEF Extended, u
    <3>4. e \in RunState /\ e.perms = Perms(t, p) /\ e.bytes = 0 /\ e.prot = u.prot
      BY <3>1, <3>3, PermsType DEF RunState
    <3> HIDE DEF e
    <3>5. \A q \in Pages : q \notin first .. (p - 1) => u.prot[q] = s.prot[q]
      BY <3>2 DEF WalkInv
    <3>6. QED
      BY <3>2a, <3>4, <3>5
  <2>2. CASE Perms(t, p) = r.perms /\ r.bytes # 0
    <3>1. e = [r EXCEPT !.potential = @ + 1]
      BY <2>2 DEF Extended
    <3>2. /\ e \in RunState /\ e.perms = Perms(t, p) /\ e.bytes = r.bytes /\ e.prot = r.prot
          /\ e.begin = r.begin /\ e.potential = r.potential + 1 /\ RunPages(e) = RunPages(r)
      BY <1>1, <2>2, <3>1 DEF RunState, RunPages
    <3> HIDE DEF e
    <3>3. /\ \A q \in Pages : q \notin first .. (p - 1) => r.prot[q] = s.prot[q]
          /\ \A q \in first .. (p - 1) : q \in RunPages(r) \/ r.prot[q] = Perms(t, q)
      BY DEF WalkInv
    <3>4. /\ r.begin >= first /\ r.begin + r.potential - 1 = p - 1 /\ r.bytes <= r.potential
          /\ \A q \in r.begin .. (p - 1) : Perms(t, q) = r.perms
      BY <2>2 DEF WalkInv
    <3>5. r.begin \in Nat /\ r.potential \in Nat /\ r.bytes \in Nat
      BY <1>1 DEF RunState
    <3>6. \A q \in e.begin .. p : Perms(t, q) = e.perms
      BY <1>0, <2>2, <3>2, <3>4, <3>5
    <3>7. QED
      BY <1>0, <3>2, <3>3, <3>4, <3>5, <3>6
  <2>3. CASE Perms(t, p) = r.perms /\ r.bytes = 0
    <3>1. e = r
      BY <2>3 DEF Extended
    <3> HIDE DEF e
    <3>2. QED
      BY <1>1, <2>3, <3>1 DEF WalkInv
  <2>4. QED
    BY <2>1, <2>2, <2>3
<1>3. v = CASE edge /\ e.bytes = 0 -> [e EXCEPT !.begin = p, !.potential = 1, !.bytes = 1]
            [] edge /\ e.bytes # 0 -> [e EXCEPT !.bytes = e.potential]
            [] OTHER -> e
  BY DEF Visited
<1> HIDE DEF e, v
<1>a. /\ \A q \in Pages : q \notin first .. p => e.prot[q] = s.prot[q]
      /\ ~edge => e.prot[p] = Perms(t, p)
  <2>1. p \notin first .. (p - 1) /\ first .. (p - 1) \subseteq first .. p
    BY <1>0
  <2>2. QED
    BY <1>0, <1>2, <2>1
<1>4. CASE edge /\ e.bytes = 0
  <2>1. v = [e EXCEPT !.begin = p, !.potential = 1, !.bytes = 1]
    BY <1>3, <1>4
  <2>2. /\ v \in RunState /\ v.perms = e.perms /\ v.prot = e.prot
        /\ v.begin = p /\ v.potential = 1 /\ v.bytes = 1
    BY <1>0, <1>2, <2>1 DEF RunState
  <2>3. RunPages(v) = p .. p /\ RunPages(e) = {}
    BY <1>0, <1>2, <1>4, <2>2 DEF RunPages, RunState
  <2>4. \A q \in first .. p : q \in RunPages(v) \/ v.prot[q] = Perms(t, q)
    BY <1>0, <1>2, <2>2, <2>3
  <2>5. \A q \in v.begin .. p : Perms(t, q) = v.perms
    BY <1>0, <1>2, <2>2
  <2>6. QED
    BY <1>0, <1>2, <1>a, <2>2, <2>4, <2>5 DEF WalkInv, v
<1>5. CASE edge /\ e.bytes # 0
  <2>1. v = [e EXCEPT !.bytes = e.potential]
    BY <1>3, <1>5
  <2>2. /\ v \in RunState /\ v.perms = e.perms /\ v.prot = e.prot
        /\ v.begin = e.begin /\ v.potential = e.potential /\ v.bytes = e.potential
    BY <1>0, <1>2, <2>1 DEF RunState
  <2>3. e.begin \in Nat /\ e.bytes \in Nat /\ e.potential \in Nat
    BY <1>2 DEF RunState
  <2>4. \A q \in first .. p : q \in RunPages(v) \/ v.prot[q] = Perms(t, q)
    BY <1>0, <1>2, <1>5, <2>2, <2>3 DEF RunPages
  <2>5. \A q \in v.begin .. p : Perms(t, q) = v.perms
    BY <1>0, <1>2, <1>5, <2>2
  <2>6. v.begin >= first /\ v.begin + v.potential - 1 = p /\ v.bytes <= v.potential
    BY <1>2, <1>5, <2>2, <2>3
  <2>7. WalkInv(v, s, t, first, p)
    BY <1>2, <1>a, <2>2, <2>4, <2>5, <2>6 DEF WalkInv
  <2>8. QED
    BY <2>7 DEF v
<1>6. CASE ~edge
  <2>1. v = e
    BY <1>3, <1>6
  <2>3. e.begin \in Nat /\ e.bytes \in Nat /\ e.potential \in Nat
    BY <1>2 DEF RunState
  <2>4. \A q \in first .. p : q \in RunPages(e) \/ e.prot[q] = Perms(t, q)
    BY <1>0, <1>2, <1>6, <1>a
  <2>5. QED
    BY <1>0, <1>2, <1>6, <1>a, <2>1, <2>3, <2>4 DEF WalkInv, v
<1>7. QED
  BY <1>4, <1>5, <1>6

\* The whole walk: the pages from the first to the last get their new protection, the others
\* keep theirs.
LEMMA WalkProtects ==
    ASSUME NEW s \in PageState, NEW t, NEW first \in Pages, NEW last \in Pages,
           first <= last, NEW edges,
           \A p \in first .. last : p \notin edges => s.prot[p] = Perms(t, p)
    PROVE  LET done == Released(Walk(s, t, first, last, edges)[last]).prot
           IN  /\ done \in [Pages -> Protections]
               /\ \A p \in Pages : done[p] = IF p \in first .. last THEN Perms(t, p)
                                              ELSE s.prot[p]
<1> DEFINE run == Walk(s, t, first, last, edges)
           N == last - first + 1
           T == {n \in 0 .. N : WalkInv(run[first - 1 + n], s, t, first, first - 1 + n)}
<1>0. first \in Nat /\ last \in Nat /\ LastPage \in Nat /\ last <= LastPage /\ N \in Nat
  BY LastPageAssumption DEF Pages
<1>0a. IsWalk(run, s, t, first, last, edges)
  BY WalkEquations
<1> HIDE DEF run
<1>1. run[first - 1] = [perms |-> Perms(s, first), begin |-> 0, bytes |-> 0,
                        potential |-> 0, prot |-> s.prot]
  BY <1>0a DEF IsWalk
<1>2. \A p \in first .. last : run[p] = Visited(run[p - 1], p, Perms(t, p), p \in edges)
  BY <1>0a DEF IsWalk
<1>3. 0 \in T
  <2>1. run[first - 1] \in RunState
    BY <1>1, PermsType DEF RunState, PageState
  <2>2. /\ run[first - 1].prot = s.prot /\ run[first - 1].bytes = 0
    BY <1>1
  <2>3. WalkInv(run[first - 1], s, t, first, first - 1)
    BY <1>0, <2>1, <2>2 DEF WalkInv
  <2>4. first - 1 + 0 = first - 1
    BY <1>0
  <2>5. QED
    BY <1>0, <2>3, <2>4
<1>4. ASSUME NEW n \in 1 .. N, n - 1 \in T
      PROVE  n \in T
  <2> DEFINE p == first - 1 + n
  <2>1. p \in first .. last /\ p \in first .. LastPage /\ first - 1 + (n - 1) = p - 1
    BY <1>0
  <2>2. WalkInv(run[p - 1], s, t, first, p - 1)
    BY <1>4, <2>1
  <2> HIDE DEF p
  <2>3. (p \in edges) \in BOOLEAN /\ (~(p \in edges) => s.prot[p] = Perms(t, p))
    BY <2>1
  <2>4. WalkInv(Visited(run[p - 1], p, Perms(t, p), p \in edges), s, t, first, p)
    BY <2>1, <2>2, <2>3, VisitKeepsWalk
  <2>5. WalkInv(run[p], s, t, first, p)
    BY <1>2, <2>1, <2>4
  <2>6. QED
    BY <1>0, <2>5 DEF p
<1>5. \A n \in 0 .. N : n \in T
  <2>1. N \in Nat
    BY <1>0
  <2> HIDE DEF N, T
  <2>2. QED
    BY <1>3, <1>4, <2>1, PrefixInduction
<1>6. WalkInv(run[last], s, t, first, last)
  <2>1. N \in 0 .. N /\ first - 1 + N = last
    BY <1>0
  <2>2. QED
    BY <1>5, <2>1
<1>7. last \in (first - 1) .. LastPage
  BY <1>0
<1> DEFINE u == Released(run[last])
<1>8. WalkInv(u, s, t, first, last) /\ \A q \in first .. last : u.prot[q] = Perms(t, q)
  BY <1>6, <1>7, ReleasedKeepsWalk
<1>9. u.prot \in [Pages -> Protections] /\ \A q \in Pages : q \notin first .. last => u.prot[q] = s.prot[q]
  <2> HIDE DEF u
  <2>1. QED
    BY <1>8 DEF WalkInv, RunState
<1>10. QED
  BY <1>8, <1>9 DEF run

\* Pages are finite, so a set of them that is not empty has a first and a last page.
LEMMA MaskEnds ==
    ASSUME NEW mask \in SUBSET Pages, mask # {}
    PROVE  /\ Min(mask) \in Pages /\ Max(mask) \in Pages /\ Min(mask) <= Max(mask)
           /\ mask \subseteq Min(mask) .. Max(mask)
<1>0. LastPage \in Nat /\ Pages \subseteq Int
  BY LastPageAssumption DEF Pages
<1>1. IsFiniteSet(mask)
  <2>1. IsFiniteSet(0 .. LastPage)
    BY <1>0, FS_Interval
  <2>2. QED
    BY <2>1, FS_Subset DEF Pages
<1> DEFINE low(S) == S = {} \/ \E x \in S : \A y \in S : x <= y
           high(S) == S = {} \/ \E x \in S : \A y \in S : x >= y
           T == {S \in SUBSET mask : low(S) /\ high(S)}
<1>2. mask \in T
  <2>1. {} \in T
    OBVIOUS
  <2>2. ASSUME NEW S \in SUBSET mask, S # {}, \A x \in S : S \ {x} \in T
        PROVE  S \in T
    <3>0. PICK x \in S : S \ {x} \in T
      BY <2>2
    <3>1. x \in Int /\ S \subseteq Int
      BY <1>0
    <3>2. CASE S \ {x} = {}
      <4>1. \A y \in S : x <= y /\ x >= y
        BY <3>1, <3>2
      <4>2. QED
        BY <3>0, <4>1
    <3>3. CASE S \ {x} # {}
      <4>1. PICK a \in S \ {x} : \A y \in S \ {x} : a <= y
        BY <3>0, <3>3
      <4>2. PICK b \in S \ {x} : \A y \in S \ {x} : b >= y
        BY <3>0, <3>3
      <4>3. low(S)
        <5>1. CASE x <= a
          <6>1. \A y \in S : x <= y
            BY <3>1, <4>1, <5>1
          <6>2. QED
            BY <3>0, <6>1
        <5>2. CASE a <= x
          <6>1. \A y \in S : a <= y
            BY <3>1, <4>1, <5>2
          <6>2. QED
            BY <4>1, <6>1
        <5>3. QED
          BY <3>1, <5>1, <5>2
      <4>4. high(S)
        <5>1. CASE x >= b
          <6>1. \A y \in S : x >= y
            BY <3>1, <4>2, <5>1
          <6>2. QED
            BY <3>0, <6>1
        <5>2. CASE b >= x
          <6>1. \A y \in S : b >= y
            BY <3>1, <4>2, <5>2
          <6>2. QED
            BY <4>2, <6>1
        <5>3. QED
          BY <3>1, <5>1, <5>2
      <4>5. QED
        BY <4>3, <4>4
    <3>4. QED
      BY <3>2, <3>3
  <2> HIDE DEF T
  <2>3. QED
    BY <1>1, <2>1, <2>2, SubsetInduction
<1>3. Min(mask) \in mask /\ \A y \in mask : Min(mask) <= y
  BY <1>2 DEF Min
<1>4. Max(mask) \in mask /\ \A y \in mask : Max(mask) >= y
  BY <1>2 DEF Max
<1>5. Min(mask) \in Int /\ Max(mask) \in Int /\ Min(mask) <= Max(mask)
  BY <1>0, <1>3, <1>4
<1>6. ASSUME NEW y \in mask
      PROVE  y \in Min(mask) .. Max(mask)
  <2>1. y \in Int /\ Min(mask) <= y /\ Max(mask) >= y
    BY <1>0, <1>3, <1>4
  <2>2. QED
    BY <1>5, <2>1
<1>7. QED
  BY <1>3, <1>4, <1>5, <1>6

\* The counts of one kind after AddDelta on the pages of a mask.
Moved(count, mask, track) ==
    [p \in Pages |-> IF p \in mask THEN count[p] + (IF track THEN 1 ELSE -1) ELSE count[p]]

\* UpdateRegionWatchers on exact pages: the counts move by one on the mask and nowhere else,
\* and every page is protected by its new counts.
LEMMA UpdateWatchersExact ==
    ASSUME NEW s, Exact(s), NEW mask \in SUBSET Pages, NEW track \in BOOLEAN,
           NEW isRead \in BOOLEAN,
           track \/ \A p \in mask : (IF isRead THEN s.access[p] ELSE s.write[p]) # 0
    PROVE  LET u == UpdateWatchers(s, mask, track, isRead)
           IN  /\ Exact(u)
               /\ u.access = IF isRead THEN Moved(s.access, mask, track) ELSE s.access
               /\ u.write = IF isRead THEN s.write ELSE Moved(s.write, mask, track)
<1> DEFINE u == UpdateWatchers(s, mask, track, isRead)
<1>0. s \in PageState /\ \A p \in Pages : s.prot[p] = Perms(s, p)
  BY DEF Exact
<1>1. CASE mask = {}
  <2>1. u = s
    BY <1>1 DEF UpdateWatchers
  <2>2. Moved(s.access, mask, track) = s.access /\ Moved(s.write, mask, track) = s.write
    BY <1>0, <1>1 DEF Moved, PageState
  <2> HIDE DEF u
  <2>3. /\ Exact(u)
        /\ u.access = IF isRead THEN Moved(s.access, mask, track) ELSE s.access
        /\ u.write = IF isRead THEN s.write ELSE Moved(s.write, mask, track)
    BY <2>1, <2>2
  <2>4. QED
    BY <2>3 DEF u
<1>2. CASE mask # {}
  <2> DEFINE t == Counted(s, mask, IF track THEN 1 ELSE -1, isRead)
             counts == IF isRead THEN t.access ELSE t.write
             edges == {p \in mask : /\ Perms(s, p) # Perms(t, p)
                                    /\ counts[p] = IF track THEN 1 ELSE 0}
             prot == Released(Walk(s, t, Min(mask), Max(mask), edges)[Max(mask)]).prot
  <2>1. u = [t EXCEPT !.prot = prot]
    BY <1>2 DEF UpdateWatchers
  <2>2. /\ t.access = IF isRead THEN Moved(s.access, mask, track) ELSE s.access
        /\ t.write = IF isRead THEN s.write ELSE Moved(s.write, mask, track)
        /\ t = [write |-> t.write, access |-> t.access, prot |-> s.prot]
    <3>1. CASE isRead
      <4>1. t = [s EXCEPT !.write = s.write, !.access = Moved(s.access, mask, track)]
        BY <1>0, <3>1 DEF Counted, Moved
      <4>2. QED
        BY <1>0, <3>1, <4>1 DEF PageState
    <3>2. CASE ~isRead
      <4>1. t = [s EXCEPT !.write = Moved(s.write, mask, track), !.access = s.access]
        BY <1>0, <3>2 DEF Counted, Moved
      <4>2. QED
        BY <1>0, <3>2, <4>1 DEF PageState
    <3>3. QED
      BY <3>1, <3>2
  <2> HIDE DEF t
  <2>3. Moved(s.access, mask, TRUE) \in [Pages -> Nat] /\ Moved(s.write, mask, TRUE) \in [Pages -> Nat]
    BY <1>0 DEF Moved, PageState
  <2>4. t.access \in [Pages -> Nat] /\ t.write \in [Pages -> Nat]
    <3>1. CASE track
      BY <1>0, <2>2, <2>3, <3>1 DEF PageState
    <3>2. CASE ~track /\ isRead
      <4>1. Moved(s.access, mask, track) \in [Pages -> Nat]
        BY <1>0, <3>2 DEF Moved, PageState
      <4>2. QED
        BY <1>0, <2>2, <3>2, <4>1 DEF PageState
    <3>3. CASE ~track /\ ~isRead
      <4>1. Moved(s.write, mask, track) \in [Pages -> Nat]
        BY <1>0, <3>3 DEF Moved, PageState
      <4>2. QED
        BY <1>0, <2>2, <3>3, <4>1 DEF PageState
    <3>4. QED
      BY <3>1, <3>2, <3>3
  <2>5. ASSUME NEW p \in Pages, p \notin edges
        PROVE  s.prot[p] = Perms(t, p)
    <3>1. s.access[p] \in Nat /\ s.write[p] \in Nat
      BY <1>0 DEF PageState
    <3>2. CASE p \notin mask
      <4>1. t.access[p] = s.access[p] /\ t.write[p] = s.write[p]
        BY <2>2, <3>2 DEF Moved
      <4>2. QED
        BY <1>0, <4>1 DEF Perms
    <3>3. CASE p \in mask /\ isRead
      <4>1. t.access[p] = s.access[p] + (IF track THEN 1 ELSE -1) /\ t.write[p] = s.write[p]
        BY <2>2, <3>3 DEF Moved
      <4>2. Perms(s, p) = Perms(t, p) \/ t.access[p] # (IF track THEN 1 ELSE 0)
        BY <2>5, <3>3
      <4>3. track \/ s.access[p] # 0
        BY <3>3
      <4>4. Perms(s, p) = Perms(t, p)
        BY <3>1, <4>1, <4>2, <4>3 DEF Perms
      <4>5. QED
        BY <1>0, <4>4
    <3>4. CASE p \in mask /\ ~isRead
      <4>1. t.write[p] = s.write[p] + (IF track THEN 1 ELSE -1) /\ t.access[p] = s.access[p]
        BY <2>2, <3>4 DEF Moved
      <4>2. Perms(s, p) = Perms(t, p) \/ t.write[p] # (IF track THEN 1 ELSE 0)
        BY <2>5, <3>4
      <4>3. track \/ s.write[p] # 0
        BY <3>4
      <4>4. Perms(s, p) = Perms(t, p)
        BY <3>1, <4>1, <4>2, <4>3 DEF Perms
      <4>5. QED
        BY <1>0, <4>4
    <3>5. QED
      BY <3>2, <3>3, <3>4
  <2>6. /\ Min(mask) \in Pages /\ Max(mask) \in Pages /\ Min(mask) <= Max(mask)
        /\ mask \subseteq Min(mask) .. Max(mask)
    BY <1>2, MaskEnds
  <2>7. edges \subseteq mask /\ Min(mask) .. Max(mask) \subseteq Pages
    BY <2>6, LastPageAssumption DEF Pages
  <2>8. /\ prot \in [Pages -> Protections]
        /\ \A p \in Pages : prot[p] = IF p \in Min(mask) .. Max(mask) THEN Perms(t, p)
                                       ELSE s.prot[p]
    <3>1. \A p \in Min(mask) .. Max(mask) : p \notin edges => s.prot[p] = Perms(t, p)
      BY <2>5, <2>7
    <3> HIDE DEF edges
    <3>2. QED
      BY <1>0, <2>6, <3>1, WalkProtects
  <2> HIDE DEF prot
  <2>9. \A p \in Pages : prot[p] = Perms(t, p)
    BY <2>5, <2>6, <2>7, <2>8
  <2> HIDE DEF edges, u
  <2>10. /\ u = [write |-> t.write, access |-> t.access, prot |-> prot]
         /\ u.access = t.access /\ u.write = t.write /\ u.prot = prot /\ u \in PageState
    BY <2>1, <2>2, <2>4, <2>8 DEF PageState
  <2>11. Exact(u)
    <3>1. \A p \in Pages : Perms(u, p) = Perms(t, p)
      BY <2>10 DEF Perms
    <3>2. QED
      BY <2>9, <2>10, <3>1 DEF Exact
  <2>12. QED
    BY <2>2, <2>10, <2>11 DEF u
<1>3. QED
  BY <1>1, <1>2

\* The four ways the caches count watchers: of writes or of accesses, one more or one less.
LEMMA WatchWrites ==
    ASSUME NEW s, Exact(s), NEW mask \in SUBSET Pages
    PROVE  /\ Exact(UpdateWatchers(s, mask, TRUE, FALSE))
           /\ UpdateWatchers(s, mask, TRUE, FALSE).access = s.access
           /\ UpdateWatchers(s, mask, TRUE, FALSE).write = Moved(s.write, mask, TRUE)
<1> DEFINE track == TRUE
           isRead == FALSE
<1>1. track \in BOOLEAN /\ isRead \in BOOLEAN /\ track /\ ~isRead
  OBVIOUS
<1> HIDE DEF track, isRead
<1>2. LET u == UpdateWatchers(s, mask, track, isRead)
      IN  /\ Exact(u)
          /\ u.access = IF isRead THEN Moved(s.access, mask, track) ELSE s.access
          /\ u.write = IF isRead THEN s.write ELSE Moved(s.write, mask, track)
  BY <1>1, UpdateWatchersExact
<1>3. QED
  BY <1>2 DEF track, isRead

\* A watcher of writes leaves.
LEMMA UnwatchWrites ==
    ASSUME NEW s, Exact(s), NEW mask \in SUBSET Pages, \A p \in mask : s.write[p] # 0
    PROVE  /\ Exact(UpdateWatchers(s, mask, FALSE, FALSE))
           /\ UpdateWatchers(s, mask, FALSE, FALSE).access = s.access
           /\ UpdateWatchers(s, mask, FALSE, FALSE).write = Moved(s.write, mask, FALSE)
<1> DEFINE track == FALSE
           isRead == FALSE
<1>1. track \in BOOLEAN /\ isRead \in BOOLEAN /\ ~track /\ ~isRead
  OBVIOUS
<1> HIDE DEF track, isRead
<1>2. LET u == UpdateWatchers(s, mask, track, isRead)
      IN  /\ Exact(u)
          /\ u.access = IF isRead THEN Moved(s.access, mask, track) ELSE s.access
          /\ u.write = IF isRead THEN s.write ELSE Moved(s.write, mask, track)
  BY <1>1, UpdateWatchersExact
<1>3. QED
  BY <1>2 DEF track, isRead

\* A watcher of accesses comes.
LEMMA WatchAccesses ==
    ASSUME NEW s, Exact(s), NEW mask \in SUBSET Pages
    PROVE  /\ Exact(UpdateWatchers(s, mask, TRUE, TRUE))
           /\ UpdateWatchers(s, mask, TRUE, TRUE).access = Moved(s.access, mask, TRUE)
           /\ UpdateWatchers(s, mask, TRUE, TRUE).write = s.write
<1> DEFINE track == TRUE
           isRead == TRUE
<1>1. track \in BOOLEAN /\ isRead \in BOOLEAN /\ track /\ isRead
  OBVIOUS
<1> HIDE DEF track, isRead
<1>2. LET u == UpdateWatchers(s, mask, track, isRead)
      IN  /\ Exact(u)
          /\ u.access = IF isRead THEN Moved(s.access, mask, track) ELSE s.access
          /\ u.write = IF isRead THEN s.write ELSE Moved(s.write, mask, track)
  BY <1>1, UpdateWatchersExact
<1>3. QED
  BY <1>2 DEF track, isRead

\* A watcher of accesses leaves.
LEMMA UnwatchAccesses ==
    ASSUME NEW s, Exact(s), NEW mask \in SUBSET Pages, \A p \in mask : s.access[p] # 0
    PROVE  /\ Exact(UpdateWatchers(s, mask, FALSE, TRUE))
           /\ UpdateWatchers(s, mask, FALSE, TRUE).access = Moved(s.access, mask, FALSE)
           /\ UpdateWatchers(s, mask, FALSE, TRUE).write = s.write
<1> DEFINE track == FALSE
           isRead == TRUE
<1>1. track \in BOOLEAN /\ isRead \in BOOLEAN /\ ~track /\ isRead
  OBVIOUS
<1> HIDE DEF track, isRead
<1>2. LET u == UpdateWatchers(s, mask, track, isRead)
      IN  /\ Exact(u)
          /\ u.access = IF isRead THEN Moved(s.access, mask, track) ELSE s.access
          /\ u.write = IF isRead THEN s.write ELSE Moved(s.write, mask, track)
  BY <1>1, UpdateWatchersExact, ZenonT(60)
<1>3. QED
  BY <1>2 DEF track, isRead

\* UntrackImage, for the image the fold takes first from a set.
Pick(w) == CHOOSE x \in w : TRUE

UntrackOne(i, s) ==
    IF images[i].tracked THEN UpdateWatchers(s, ImagePages[i], FALSE, FALSE) ELSE s

IsUntracking(f, s, is) ==
    f = [w \in SUBSET is |-> IF w = {} THEN s ELSE UntrackOne(Pick(w), f[w \ {Pick(w)}])]

\* The recursive function of the fold exists.
LEMMA UntrackingExists ==
    ASSUME NEW s, NEW is, IsFiniteSet(is)
    PROVE  \E f : IsUntracking(f, s, is)
<1> DEFINE N == Cardinality(is)
           Small(n) == {w \in SUBSET is : Cardinality(w) <= n}
           Body(f, w) == IF w = {} THEN s ELSE UntrackOne(Pick(w), f[w \ {Pick(w)}])
           Good(n) == \E f : f = [w \in Small(n) |-> Body(f, w)]
           T == {n \in 0 .. N : Good(n)}
<1>0. /\ N \in Nat
      /\ \A w \in SUBSET is : IsFiniteSet(w) /\ Cardinality(w) \in Nat /\ Cardinality(w) <= N
  BY FS_CardinalityType, FS_Subset
<1>1. 0 \in T
  <2> DEFINE f == [w \in Small(0) |-> s]
  <2>1. \A w \in Small(0) : w = {}
    BY <1>0, FS_EmptySet
  <2>2. f = [w \in Small(0) |-> Body(f, w)]
    BY <2>1
  <2>3. Good(0)
    <3> HIDE DEF f, Body, Small
    <3>1. QED
      BY <2>2
  <2>4. 0 \in 0 .. N
    <3> HIDE DEF N
    <3>1. QED
      BY <1>0
  <2> HIDE DEF N, Good
  <2>5. QED
    BY <2>3, <2>4
<1>2. ASSUME NEW n \in 1 .. N, n - 1 \in T
      PROVE  n \in T
  <2>1. PICK f : f = [w \in Small(n - 1) |-> Body(f, w)]
    BY <1>2
  <2> DEFINE h == [w \in Small(n) |-> IF w \in Small(n - 1) THEN f[w] ELSE Body(f, w)]
  <2>2. ASSUME NEW w \in Small(n)
        PROVE  h[w] = Body(h, w)
    <3>1. h[w] = Body(f, w)
      <4> HIDE DEF Body, Small
      <4>1. QED
        BY <2>1
    <3>2. CASE w = {}
      BY <3>1, <3>2
    <3>3. CASE w # {}
      <4> DEFINE x == Pick(w)
      <4>1. x \in w
        BY <3>3 DEF Pick
      <4>2. Cardinality(w \ {x}) = Cardinality(w) - 1
        BY <1>0, <4>1, FS_RemoveElement
      <4> HIDE DEF x
      <4>3. w \ {x} \in Small(n - 1) /\ w \ {x} \in Small(n)
        <5>1. Cardinality(w) \in Nat /\ Cardinality(w) <= n /\ n \in Nat
          BY <1>0
        <5>2. QED
          BY <4>2, <5>1
      <4>4. h[w \ {x}] = f[w \ {x}]
        <5> HIDE DEF Small, Body
        <5>1. QED
          BY <4>3
      <4> HIDE DEF h, Small
      <4>5. Body(f, w) = UntrackOne(x, f[w \ {x}]) /\ Body(h, w) = UntrackOne(x, h[w \ {x}])
        BY <3>3 DEF x
      <4>6. QED
        BY <3>1, <4>4, <4>5
    <3>4. QED
      BY <3>2, <3>3
  <2>3. h = [w \in Small(n) |-> Body(h, w)]
    <3> HIDE DEF Body, Small
    <3>1. QED
      BY <2>2
  <2>4. Good(n)
    <3> HIDE DEF h, Body, Small
    <3>1. QED
      BY <2>3
  <2> HIDE DEF N, Good
  <2>5. QED
    BY <2>4
<1>3. \A n \in 0 .. N : n \in T
  <2> HIDE DEF T, N
  <2>1. QED
    BY <1>0, <1>1, <1>2, PrefixInduction
<1>4. Good(N)
  <2> HIDE DEF Good, N
  <2>1. QED
    BY <1>0, <1>3
<1>5. Small(N) = SUBSET is
  BY <1>0
<1>6. PICK f : f = [w \in SUBSET is |-> Body(f, w)]
  <2> HIDE DEF Body, Small, N
  <2>1. QED
    BY <1>4, <1>5
<1>7. IsUntracking(f, s, is)
  BY <1>6 DEF IsUntracking
<1>8. QED
  BY <1>7

\* UntrackImages is that function at the whole set.
LEMMA UntrackImagesFold ==
    ASSUME NEW s, NEW is, IsFiniteSet(is)
    PROVE  \E f : IsUntracking(f, s, is) /\ UntrackImages(s, is) = f[is]
<1>1. UntrackImages(s, is) = (CHOOSE f : IsUntracking(f, s, is))[is]
  BY DEF UntrackImages, FoldSet, MapThenFoldSet, IsUntracking, UntrackOne, Pick
<1>2. IsUntracking(CHOOSE f : IsUntracking(f, s, is), s, is)
  BY UntrackingExists
<1>3. QED
  BY <1>1, <1>2

\* The images of a set that watch a page.
Holders(is, p) == {i \in is : images[i].tracked /\ p \in ImagePages[i]}

\* UntrackImage on each image of a set: every tracked one gives up its watcher of each of
\* its pages, and the pages stay exact.
LEMMA UntrackImagesExact ==
    ASSUME NEW s, Exact(s), NEW is \in SUBSET Images,
           \A p \in Pages : s.write[p] >= Cardinality(Holders(is, p))
    PROVE  /\ Exact(UntrackImages(s, is))
           /\ UntrackImages(s, is).access = s.access
           /\ \A p \in Pages :
                 UntrackImages(s, is).write[p] = s.write[p] - Cardinality(Holders(is, p))
<1>0. IsFiniteSet(is) /\ s \in PageState /\ ImagePages \in [Images -> SUBSET Pages]
  BY CoherenceAssumption, FS_Subset DEF Exact
<1>1. PICK f : IsUntracking(f, s, is) /\ UntrackImages(s, is) = f[is]
  BY <1>0, UntrackImagesFold
<1>2. /\ f[{}] = s
      /\ \A w \in SUBSET is : w # {} => f[w] = UntrackOne(Pick(w), f[w \ {Pick(w)}])
  <2>1. f = [w \in SUBSET is |-> IF w = {} THEN s ELSE UntrackOne(Pick(w), f[w \ {Pick(w)}])]
    BY <1>1 DEF IsUntracking
  <2>2. ASSUME NEW w \in SUBSET is
        PROVE  f[w] = IF w = {} THEN s ELSE UntrackOne(Pick(w), f[w \ {Pick(w)}])
    BY <2>1
  <2>3. QED
    BY <2>2
<1>3. \A w \in SUBSET is, p \in Pages :
         /\ IsFiniteSet(Holders(w, p)) /\ Cardinality(Holders(w, p)) \in Nat
         /\ Cardinality(Holders(w, p)) <= Cardinality(Holders(is, p))
  <2>1. ASSUME NEW w \in SUBSET is, NEW p \in Pages
        PROVE  /\ IsFiniteSet(Holders(w, p)) /\ IsFiniteSet(Holders(is, p))
               /\ Holders(w, p) \subseteq Holders(is, p)
    BY <1>0, FS_Subset DEF Holders
  <2>2. QED
    BY <2>1, FS_CardinalityType, FS_Subset
<1> DEFINE Good(w) == /\ Exact(f[w]) /\ f[w].access = s.access
                      /\ \A p \in Pages : f[w].write[p] = s.write[p] - Cardinality(Holders(w, p))
           T == {w \in SUBSET is : Good(w)}
<1>4. {} \in T
  <2>1. \A p \in Pages : Cardinality(Holders({}, p)) = 0
    BY FS_EmptySet DEF Holders
  <2>2. \A p \in Pages : s.write[p] \in Nat
    BY <1>0 DEF PageState
  <2>3. \A p \in Pages : s.write[p] = s.write[p] - Cardinality(Holders({}, p))
    BY <2>1, <2>2
  <2>4. QED
    BY <1>2, <2>3
<1>5. ASSUME NEW w \in SUBSET is, w # {}, \A x \in w : w \ {x} \in T
      PROVE  w \in T
  <2> DEFINE x == Pick(w)
             v == w \ {x}
  <2>1. x \in w /\ x \in Images /\ v \in SUBSET is
    BY <1>5 DEF Pick
  <2>2. Good(v)
    BY <1>5, <2>1
  <2>3. f[w] = UntrackOne(x, f[v])
    BY <1>2, <1>5
  <2> HIDE DEF x
  <2>4. CASE ~images[x].tracked
    <3>1. f[w] = f[v]
      BY <2>3, <2>4 DEF UntrackOne
    <3>2. \A p \in Pages : Holders(w, p) = Holders(v, p)
      BY <2>4 DEF Holders
    <3> HIDE DEF v
    <3>3. QED
      BY <2>2, <3>1, <3>2
  <2>5. CASE images[x].tracked
    <3>1. f[w] = UpdateWatchers(f[v], ImagePages[x], FALSE, FALSE)
      BY <2>3, <2>5 DEF UntrackOne
    <3>2. ASSUME NEW p \in Pages
          PROVE  Cardinality(Holders(w, p)) = Cardinality(Holders(v, p))
                                              + (IF p \in ImagePages[x] THEN 1 ELSE 0)
      <4>1. CASE p \in ImagePages[x]
        <5>1. Holders(w, p) = Holders(v, p) \union {x} /\ x \notin Holders(v, p)
          BY <2>1, <2>5, <4>1 DEF Holders
        <5>2. IsFiniteSet(Holders(v, p))
          BY <1>3, <2>1
        <5>3. QED
          BY <4>1, <5>1, <5>2, FS_AddElement
      <4>2. CASE p \notin ImagePages[x]
        <5>1. Holders(w, p) = Holders(v, p)
          BY <2>1, <4>2 DEF Holders
        <5>2. Cardinality(Holders(v, p)) \in Nat
          BY <1>3, <2>1
        <5>3. QED
          BY <4>2, <5>1, <5>2
      <4>3. QED
        BY <4>1, <4>2
    <3> HIDE DEF v
    <3>3. \A p \in Pages : s.write[p] \in Nat /\ f[v].write[p] \in Nat /\ s.access[p] \in Nat
      BY <1>0, <2>2 DEF Exact, PageState
    <3>4. \A p \in ImagePages[x] : f[v].write[p] # 0
      <4>1. ASSUME NEW p \in ImagePages[x]
            PROVE  f[v].write[p] # 0
        <5>1. p \in Pages
          BY <1>0, <2>1
        <5>2. Cardinality(Holders(w, p)) <= s.write[p] /\ Cardinality(Holders(v, p)) \in Nat
          BY <1>3, <2>1, <3>3, <5>1
        <5>3. f[v].write[p] = s.write[p] - Cardinality(Holders(v, p))
          BY <2>2, <5>1
        <5>4. QED
          BY <3>2, <3>3, <5>1, <5>2, <5>3
      <4>2. QED
        BY <4>1
    <3>5. /\ Exact(f[w]) /\ f[w].access = f[v].access
          /\ f[w].write = Moved(f[v].write, ImagePages[x], FALSE)
      <4>1. ImagePages[x] \in SUBSET Pages /\ Exact(f[v])
        BY <1>0, <2>1, <2>2
      <4>2. QED
        BY <3>1, <3>4, <4>1, UnwatchWrites
    <3>6. ASSUME NEW p \in Pages
          PROVE  f[w].write[p] = s.write[p] - Cardinality(Holders(w, p))
      <4>1. f[w].write[p] = f[v].write[p] + (IF p \in ImagePages[x] THEN -1 ELSE 0)
        BY <3>3, <3>5 DEF Moved
      <4>2. f[v].write[p] = s.write[p] - Cardinality(Holders(v, p))
        BY <2>2
      <4>3. Cardinality(Holders(v, p)) \in Nat
        BY <1>3, <2>1
      <4>4. QED
        BY <3>2, <3>3, <4>1, <4>2, <4>3
    <3>7. QED
      BY <2>2, <3>5, <3>6
  <2>6. QED
    BY <2>4, <2>5
<1>6. is \in T
  <2> HIDE DEF T
  <2>1. QED
    BY <1>0, <1>4, <1>5, SubsetInduction
<1>7. QED
  BY <1>1, <1>6

-----------------------------------------------------------------------------
(***************************************************************************)
(* The watchers of the pages and the owners they stand for.                *)
(***************************************************************************)

Watching(im, p) == {i \in ImagesOn({p}) : im[i].tracked}

\* WatchersExact, of a state of the page manager, two sets of dirty pages and images.
ExactFor(s, cd, gd, im) ==
    /\ Exact(s) /\ cd \intersect gd = {}
    /\ \A p \in Pages :
         /\ s.access[p] = IF p \in gd THEN 1 ELSE 0
         /\ s.write[p] = (IF p \in cd THEN 0 ELSE 1) + Cardinality(Watching(im, p))

\* Finitely many images watch a page.
LEMMA WatchingFinite ==
    ASSUME NEW im, NEW p
    PROVE  IsFiniteSet(Watching(im, p)) /\ Cardinality(Watching(im, p)) \in Nat
<1>1. Watching(im, p) \in SUBSET Images /\ IsFiniteSet(Images)
  BY CoherenceAssumption DEF Watching, ImagesOn
<1>2. IsFiniteSet(Watching(im, p))
  BY <1>1, FS_Subset
<1>3. QED
  BY <1>2, FS_CardinalityType

\* ChangeState<Cpu, true> on pages the GPU does not own.
LEMMA CpuOwnsExact ==
    ASSUME NEW s, NEW cd, NEW gd, NEW im, ExactFor(s, cd, gd, im),
           NEW range \in SUBSET Pages, range \intersect gd = {}
    PROVE  ExactFor(UpdateWatchers(s, range \ cd, FALSE, FALSE), cd \union range, gd, im)
<1> DEFINE u == UpdateWatchers(s, range \ cd, FALSE, FALSE)
<1>1. \A p \in Pages : Cardinality(Watching(im, p)) \in Nat
  BY WatchingFinite
<1>2. \A p \in range \ cd : s.write[p] # 0
  BY <1>1 DEF ExactFor
<1>3. Exact(u) /\ u.access = s.access /\ u.write = Moved(s.write, range \ cd, FALSE)
  <2>1. range \ cd \in SUBSET Pages /\ Exact(s)
    BY DEF ExactFor
  <2>2. QED
    BY <1>2, <2>1, UnwatchWrites
<1> HIDE DEF u
<1>4. ExactFor(u, cd \union range, gd, im)
  <2>1. ASSUME NEW p \in Pages
        PROVE  u.write[p] = (IF p \in cd \union range THEN 0 ELSE 1) + Cardinality(Watching(im, p))
    <3>1. s.write[p] = (IF p \in cd THEN 0 ELSE 1) + Cardinality(Watching(im, p))
      BY DEF ExactFor
    <3>2. u.write[p] = IF p \in range \ cd THEN s.write[p] + (-1) ELSE s.write[p]
      BY <1>3 DEF Moved
    <3>3. QED
      BY <1>1, <3>1, <3>2
  <2>2. QED
    BY <1>3, <2>1 DEF ExactFor
<1>5. QED
  BY <1>4 DEF u

\* ForEachModifiedRange<Cpu, true>.
LEMMA CpuLosesExact ==
    ASSUME NEW s, NEW cd, NEW gd, NEW im, ExactFor(s, cd, gd, im), NEW range \in SUBSET Pages
    PROVE  ExactFor(UpdateWatchers(s, range \intersect cd, TRUE, FALSE), cd \ range, gd, im)
<1> DEFINE u == UpdateWatchers(s, range \intersect cd, TRUE, FALSE)
<1>1. \A p \in Pages : Cardinality(Watching(im, p)) \in Nat
  BY WatchingFinite
<1>3. Exact(u) /\ u.access = s.access /\ u.write = Moved(s.write, range \intersect cd, TRUE)
  <2>1. range \intersect cd \in SUBSET Pages /\ Exact(s)
    BY DEF ExactFor
  <2>2. QED
    BY <2>1, WatchWrites
<1> HIDE DEF u
<1>4. ExactFor(u, cd \ range, gd, im)
  <2>1. ASSUME NEW p \in Pages
        PROVE  u.write[p] = (IF p \in cd \ range THEN 0 ELSE 1) + Cardinality(Watching(im, p))
    <3>1. s.write[p] = (IF p \in cd THEN 0 ELSE 1) + Cardinality(Watching(im, p))
      BY DEF ExactFor
    <3>2. u.write[p] = IF p \in range \intersect cd THEN s.write[p] + 1 ELSE s.write[p]
      BY <1>3 DEF Moved
    <3>3. QED
      BY <1>1, <3>1, <3>2
  <2>2. (cd \ range) \intersect gd = {}
    BY DEF ExactFor
  <2>3. QED
    BY <1>3, <2>1, <2>2 DEF ExactFor
<1>5. QED
  BY <1>4 DEF u

\* ChangeState<Gpu, true> on pages the CPU does not own.
LEMMA GpuOwnsExact ==
    ASSUME NEW s, NEW cd, NEW gd, NEW im, ExactFor(s, cd, gd, im),
           NEW range \in SUBSET Pages, range \intersect cd = {}
    PROVE  ExactFor(UpdateWatchers(s, range \ gd, TRUE, TRUE), cd, gd \union range, im)
<1> DEFINE u == UpdateWatchers(s, range \ gd, TRUE, TRUE)
<1>3. Exact(u) /\ u.write = s.write /\ u.access = Moved(s.access, range \ gd, TRUE)
  <2>1. range \ gd \in SUBSET Pages /\ Exact(s)
    BY DEF ExactFor
  <2>2. QED
    BY <2>1, WatchAccesses
<1> HIDE DEF u
<1>4. ExactFor(u, cd, gd \union range, im)
  <2>1. ASSUME NEW p \in Pages
        PROVE  u.access[p] = IF p \in gd \union range THEN 1 ELSE 0
    <3>1. s.access[p] = IF p \in gd THEN 1 ELSE 0
      BY DEF ExactFor
    <3>2. u.access[p] = IF p \in range \ gd THEN s.access[p] + 1 ELSE s.access[p]
      BY <1>3 DEF Moved
    <3>3. QED
      BY <3>1, <3>2
  <2>2. cd \intersect (gd \union range) = {}
    BY DEF ExactFor
  <2>3. QED
    BY <1>3, <2>1, <2>2 DEF ExactFor
<1>5. QED
  BY <1>4 DEF u

\* ChangeState<Gpu, false>.
LEMMA GpuLosesExact ==
    ASSUME NEW s, NEW cd, NEW gd, NEW im, ExactFor(s, cd, gd, im), NEW range \in SUBSET Pages
    PROVE  ExactFor(UpdateWatchers(s, range \intersect gd, FALSE, TRUE), cd, gd \ range, im)
<1> DEFINE u == UpdateWatchers(s, range \intersect gd, FALSE, TRUE)
<1>2. \A p \in range \intersect gd : s.access[p] # 0
  BY DEF ExactFor
<1>3. Exact(u) /\ u.write = s.write /\ u.access = Moved(s.access, range \intersect gd, FALSE)
  <2>1. range \intersect gd \in SUBSET Pages /\ Exact(s)
    BY DEF ExactFor
  <2>2. QED
    BY <1>2, <2>1, UnwatchAccesses
<1> HIDE DEF u
<1>4. ExactFor(u, cd, gd \ range, im)
  <2>1. ASSUME NEW p \in Pages
        PROVE  u.access[p] = IF p \in gd \ range THEN 1 ELSE 0
    <3>1. s.access[p] = IF p \in gd THEN 1 ELSE 0
      BY DEF ExactFor
    <3>2. u.access[p] = IF p \in range \intersect gd THEN s.access[p] + (-1) ELSE s.access[p]
      BY <1>3 DEF Moved
    <3>3. QED
      BY <3>1, <3>2
  <2>2. cd \intersect (gd \ range) = {}
    BY DEF ExactFor
  <2>3. QED
    BY <1>3, <2>1, <2>2 DEF ExactFor
<1>5. QED
  BY <1>4 DEF u

\* TrackImage on an image that was not tracked.
LEMMA TrackExact ==
    ASSUME NEW s, NEW cd, NEW gd, NEW im, NEW jm, ExactFor(s, cd, gd, im), NEW i \in Images,
           ~im[i].tracked, jm[i].tracked, \A j \in Images \ {i} : jm[j].tracked = im[j].tracked
    PROVE  ExactFor(UpdateWatchers(s, ImagePages[i], TRUE, FALSE), cd, gd, jm)
<1> DEFINE u == UpdateWatchers(s, ImagePages[i], TRUE, FALSE)
<1>0. ImagePages[i] \in SUBSET Pages
  BY CoherenceAssumption
<1>1. \A p \in Pages : Cardinality(Watching(im, p)) \in Nat /\ IsFiniteSet(Watching(im, p))
  BY WatchingFinite
<1>3. Exact(u) /\ u.access = s.access /\ u.write = Moved(s.write, ImagePages[i], TRUE)
  <2>1. Exact(s)
    BY DEF ExactFor
  <2>2. QED
    BY <1>0, <2>1, WatchWrites
<1> HIDE DEF u
<1>4. ASSUME NEW p \in Pages
      PROVE  u.write[p] = (IF p \in cd THEN 0 ELSE 1) + Cardinality(Watching(jm, p))
  <2>1. s.write[p] = (IF p \in cd THEN 0 ELSE 1) + Cardinality(Watching(im, p))
    BY DEF ExactFor
  <2>2. u.write[p] = IF p \in ImagePages[i] THEN s.write[p] + 1 ELSE s.write[p]
    BY <1>3 DEF Moved
  <2>3. CASE p \in ImagePages[i]
    <3>1. Watching(jm, p) = Watching(im, p) \union {i} /\ i \notin Watching(im, p)
      BY <2>3 DEF Watching, ImagesOn
    <3>2. Cardinality(Watching(jm, p)) = Cardinality(Watching(im, p)) + 1
      BY <1>1, <3>1, FS_AddElement
    <3>3. QED
      BY <1>1, <2>1, <2>2, <2>3, <3>2
  <2>4. CASE p \notin ImagePages[i]
    <3>1. Watching(jm, p) = Watching(im, p)
      BY <2>4 DEF Watching, ImagesOn
    <3>2. QED
      BY <2>1, <2>2, <2>4, <3>1
  <2>5. QED
    BY <2>3, <2>4
<1>5. ExactFor(u, cd, gd, jm)
  BY <1>3, <1>4 DEF ExactFor
<1>6. QED
  BY <1>5 DEF u

\* Images that start to be clean or dirty, or stay as they are, without a change of tracking.
LEMMA SameTracking ==
    ASSUME NEW s, NEW cd, NEW gd, NEW im, NEW jm, ExactFor(s, cd, gd, im),
           \A j \in Images : jm[j].tracked = im[j].tracked
    PROVE  ExactFor(s, cd, gd, jm)
<1>1. \A p \in Pages : Watching(jm, p) = Watching(im, p)
  BY DEF Watching, ImagesOn
<1>2. QED
  BY <1>1 DEF ExactFor

\* UntrackImage on the images of a set.
LEMMA UntrackExact ==
    ASSUME NEW s, NEW cd, NEW gd, ExactFor(s, cd, gd, images), NEW is \in SUBSET Images, NEW jm,
           \A j \in is : ~jm[j].tracked,
           \A j \in Images \ is : jm[j].tracked = images[j].tracked
    PROVE  ExactFor(UntrackImages(s, is), cd, gd, jm)
<1> DEFINE u == UntrackImages(s, is)
<1>1. ASSUME NEW p \in Pages
      PROVE  /\ Watching(jm, p) \intersect Holders(is, p) = {}
             /\ Watching(images, p) = Watching(jm, p) \union Holders(is, p)
  BY DEF Watching, Holders, ImagesOn
<1>2. ASSUME NEW p \in Pages
      PROVE  IsFiniteSet(Holders(is, p)) /\ Cardinality(Holders(is, p)) \in Nat
  <2>1. Holders(is, p) \in SUBSET Images /\ IsFiniteSet(Images)
    BY CoherenceAssumption DEF Holders
  <2>2. IsFiniteSet(Holders(is, p))
    BY <2>1, FS_Subset
  <2>3. QED
    BY <2>2, FS_CardinalityType
<1>3. ASSUME NEW p \in Pages
      PROVE  /\ Cardinality(Watching(images, p))
                = Cardinality(Watching(jm, p)) + Cardinality(Holders(is, p))
             /\ Cardinality(Watching(jm, p)) \in Nat
  <2>1. IsFiniteSet(Watching(jm, p)) /\ Cardinality(Watching(jm, p)) \in Nat
    BY WatchingFinite
  <2>2. Cardinality(Watching(jm, p) \union Holders(is, p))
        = Cardinality(Watching(jm, p)) + Cardinality(Holders(is, p))
    <3>1. Cardinality(Watching(jm, p) \union Holders(is, p))
          = Cardinality(Watching(jm, p)) + Cardinality(Holders(is, p))
            - Cardinality(Watching(jm, p) \intersect Holders(is, p))
      BY <1>2, <2>1, FS_Union
    <3>2. Cardinality(Watching(jm, p) \intersect Holders(is, p)) = 0
      BY <1>1, FS_EmptySet
    <3>3. QED
      BY <1>2, <2>1, <3>1, <3>2
  <2>3. QED
    BY <1>1, <2>1, <2>2
<1>4. Exact(s)
  BY DEF ExactFor
<1>5. \A p \in Pages : s.write[p] >= Cardinality(Holders(is, p))
  <2>1. ASSUME NEW p \in Pages
        PROVE  s.write[p] >= Cardinality(Holders(is, p))
    <3>1. s.write[p] = (IF p \in cd THEN 0 ELSE 1) + Cardinality(Watching(images, p))
      BY DEF ExactFor
    <3>2. QED
      BY <1>2, <1>3, <3>1
  <2>2. QED
    BY <2>1
<1>6. /\ Exact(u) /\ u.access = s.access
      /\ \A p \in Pages : u.write[p] = s.write[p] - Cardinality(Holders(is, p))
  BY <1>4, <1>5, UntrackImagesExact
<1> HIDE DEF u
<1>7. ASSUME NEW p \in Pages
      PROVE  u.write[p] = (IF p \in cd THEN 0 ELSE 1) + Cardinality(Watching(jm, p))
  <2>1. s.write[p] = (IF p \in cd THEN 0 ELSE 1) + Cardinality(Watching(images, p))
    BY DEF ExactFor
  <2>2. QED
    BY <1>2, <1>3, <1>6, <2>1
<1>8. ExactFor(u, cd, gd, jm)
  BY <1>6, <1>7 DEF ExactFor
<1>9. QED
  BY <1>8 DEF u

-----------------------------------------------------------------------------
(***************************************************************************)
(* The inductive invariant of WatchersExact.                               *)
(***************************************************************************)

Places == Images \union {"mem", "buf"}
Command == [cpu : Cpus, page : Pages, kind : {"read", "write", "unmap"}]
Download == [range : SUBSET Pages, copied : SUBSET Pages, good : SUBSET Pages]
ImageState == [tracked : BOOLEAN, cpuDirty : BOOLEAN, bufferModified : BOOLEAN,
               missed : SUBSET Pages]
CpuTask == [at : {"fault", "invalidate", "texture", "wait", "unmap"}, page : Pages,
            write : BOOLEAN]

UploadTask == [at : {"upload"}, range : SUBSET Pages, uploads : SUBSET Pages,
               written : BOOLEAN]
GiveTask == [at : {"finish", "unmark", "mark", "erase"}, command : Command,
             range : SUBSET Pages]
SourceTask == [at : {"image", "stage"}, image : Images]
StagedTask == [at : {"staged"}, image : Images, good : SUBSET Pages]

\* What the GPU thread does around a pending download.
Outer == {Idle} \union {task \in GiveTask : task.at = "finish"}
                \union {task \in SourceTask : task.at = "stage"}
UntrackTask == [at : {"untrack"}, range : SUBSET Pages, back : Outer]
GpuState == {Idle} \union UploadTask \union GiveTask \union SourceTask \union StagedTask
                   \union UntrackTask

TypeOK ==
    /\ pages \in PageState /\ cpuDirty \in SUBSET Pages /\ gpuDirty \in SUBSET Pages
    /\ buffers \in SUBSET SUBSET Pages /\ gpuRanges \in SUBSET Pages
    /\ retired \in Seq(Download)
    /\ images \in [Images -> ImageState]
    /\ copies \in [Pages -> SUBSET Places]
    /\ cpu \in [Cpus -> {Running} \union CpuTask]
    /\ commands \in Seq(Command)
    /\ gpu \in GpuState
    /\ spoiled \in SUBSET Pages

Giving == {"unmark", "mark", "erase"}

Task == IF gpu.at = "untrack" THEN gpu.back ELSE gpu

\* The pages the GPU owns are in its modified ranges, up to the moment between the end of a
\* readback and the change of owner, and in a buffer or in the download of a dropped one.
DirtyInRanges == \A p \in gpuDirty : p \in gpuRanges \/ (gpu.at = "unmark" /\ p \in gpu.range)

DirtyHasOwner == gpuDirty \subseteq Registered \union RetiredPages

CopiedInRange == \A k \in DOMAIN retired : retired[k].copied \subseteq retired[k].range

\* The range of an upload has a buffer; its lock keeps a written one from the CPU.
UploadOwned ==
    gpu.at = "upload" =>
        /\ gpu.range \subseteq Registered
        /\ gpu.uploads \subseteq gpu.range /\ gpu.uploads \intersect gpuDirty = {}
        /\ gpu.written => gpu.range \intersect cpuDirty = {}

\* The steps that give a range back to the CPU, in their order.
Given ==
    /\ Task.at = "finish" => Task.range = {Task.command.page}
    /\ gpu.at \in Giving => retired = <<>>
    /\ gpu.at \in Giving /\ gpu.command.kind = "unmap" =>
           gpu.range = UNION Overlapping({gpu.command.page})
    /\ gpu.at \in {"mark", "erase"} => gpu.range \intersect gpuDirty = {}
    /\ gpu.at = "mark" => gpu.command.kind # "read"
    /\ gpu.at = "erase" => gpu.command.kind = "unmap"

\* Between the two steps that end a download its pages belong to nobody.
Untracking ==
    gpu.at = "untrack" =>
        retired # <<>> /\ gpu.range = retired[1].range /\ gpu.range \intersect gpuDirty = {}

\* The thread of each command waits for it, and for no other.
Waiting(c) == cpu[c].at \in {"wait", "unmap"}

CommandsWait ==
    /\ \A k \in DOMAIN commands : Waiting(commands[k].cpu)
    /\ \A k, l \in DOMAIN commands : commands[k].cpu = commands[l].cpu => k = l
    /\ Task.at \in {"finish", "unmark", "mark", "erase"} =>
         /\ Waiting(Task.command.cpu)
         /\ \A k \in DOMAIN commands : commands[k].cpu # Task.command.cpu

Owners == DirtyInRanges /\ DirtyHasOwner /\ CopiedInRange /\ UploadOwned /\ Given /\ Untracking

WatchInv == TypeOK /\ WatchersExact /\ Owners /\ CommandsWait

\* WatchersExact, and the types of the page manager, are ExactFor of the state.
LEMMA WatchersExactFor ==
    /\ TypeOK /\ WatchersExact => ExactFor(pages, cpuDirty, gpuDirty, images)
    /\ ExactFor(pages, cpuDirty, gpuDirty, images) => WatchersExact /\ pages \in PageState
BY DEF TypeOK, WatchersExact, ExactFor, Exact, Watching

\* What ExactFor says of the next state is the property of that state.
LEMMA NextWatchersExact ==
    ASSUME ExactFor(pages', cpuDirty', gpuDirty', images')
    PROVE  WatchersExact' /\ pages' \in PageState
<1>1. Exact(pages')
  BY DEF ExactFor
<1>2. QED
  BY <1>1 DEF WatchersExact, ExactFor, Exact, Watching, ImagesOn, Perms

\* The record the GPU thread works on, by what it does.
LEMMA GpuCases ==
    ASSUME TypeOK
    PROVE  /\ gpu.at = "idle" => gpu = Idle
           /\ gpu.at = "upload" => gpu \in UploadTask
           /\ gpu.at \in {"finish", "unmark", "mark", "erase"} => gpu \in GiveTask
           /\ gpu.at \in {"image", "stage"} => gpu \in SourceTask
           /\ gpu.at = "staged" => gpu \in StagedTask
           /\ gpu.at = "untrack" => gpu \in UntrackTask
           /\ Idle.at = "idle"
<1>1. gpu \in GpuState
  BY DEF TypeOK
<1>2. QED
  BY <1>1 DEF GpuState, Idle, UploadTask, GiveTask, SourceTask, StagedTask, UntrackTask

\* The task around a pending download.
LEMMA TaskCases ==
    ASSUME TypeOK
    PROVE  /\ Task.at \in {"finish", "unmark", "mark", "erase"} => Task \in GiveTask
           /\ Task.at \in {"image", "stage"} => Task \in SourceTask
           /\ Task.at = "staged" => Task \in StagedTask
           /\ gpu.at = "untrack" => Task.at \in {"idle", "finish", "stage"}
           /\ gpu.at # "untrack" => Task = gpu
<1>1. CASE gpu.at = "untrack"
  <2>1. gpu.back \in Outer /\ Task = gpu.back
    BY <1>1, GpuCases DEF UntrackTask, Task
  <2>2. QED
    BY <1>1, <2>1 DEF Outer, Idle, GiveTask, SourceTask
<1>2. CASE gpu.at # "untrack"
  BY <1>2, GpuCases DEF Task
<1>3. QED
  BY <1>1, <1>2

\* The elements and the lengths of the two queues.
LEMMA SeqTypes ==
    ASSUME TypeOK
    PROVE  /\ \A k \in DOMAIN commands : commands[k] \in Command
           /\ \A k \in DOMAIN retired : retired[k] \in Download
           /\ DOMAIN commands = 1 .. Len(commands) /\ Len(commands) \in Nat
           /\ DOMAIN retired = 1 .. Len(retired) /\ Len(retired) \in Nat
           /\ commands # <<>> => 1 \in DOMAIN commands /\ Head(commands) = commands[1]
           /\ retired # <<>> => 1 \in DOMAIN retired /\ Head(retired) = retired[1]
<1>1. commands \in Seq(Command) /\ retired \in Seq(Download)
  BY DEF TypeOK
<1>2. /\ DOMAIN commands = 1 .. Len(commands) /\ Len(commands) \in Nat
      /\ DOMAIN retired = 1 .. Len(retired) /\ Len(retired) \in Nat
  BY <1>1, LenProperties
<1>3. /\ \A k \in DOMAIN commands : commands[k] \in Command
      /\ \A k \in DOMAIN retired : retired[k] \in Download
  BY <1>1, <1>2, ElementOfSeq
<1>4. /\ commands # <<>> => 1 \in DOMAIN commands /\ Head(commands) = commands[1]
      /\ retired # <<>> => 1 \in DOMAIN retired /\ Head(retired) = retired[1]
  BY <1>1, <1>2, EmptySeq, HeadTailProperties
<1>5. QED
  BY <1>2, <1>3, <1>4

\* A thread that does something has a page.
LEMMA CpuCases ==
    ASSUME TypeOK, NEW c \in Cpus
    PROVE  /\ cpu[c].at # "run" => cpu[c] \in CpuTask
           /\ cpu[c].at = "run" <=> cpu[c] = Running
<1>1. cpu[c] \in {Running} \union CpuTask
  BY DEF TypeOK
<1>2. QED
  BY <1>1 DEF Running, CpuTask

\* The parts about owners read no thread and no contents.
LEMMA OwnersStay ==
    ASSUME Owners, UNCHANGED <<cpuDirty, gpuDirty, gpuRanges, buffers, retired, gpu>>
    PROVE  Owners'
BY DEF Owners, DirtyInRanges, DirtyHasOwner, CopiedInRange, UploadOwned, Given, Untracking,
       Registered, RetiredPages, Overlapping, Task

\* A step that moves no thread and no command keeps every waiting thread its command.
LEMMA CommandsStay ==
    ASSUME CommandsWait, UNCHANGED <<cpu, commands, gpu>>
    PROVE  CommandsWait'
BY DEF CommandsWait, Waiting, Task

\* The invariant holds at the start.
LEMMA WatchInit ==
    ASSUME CoherenceInit
    PROVE  WatchInv
<1> USE DEF CoherenceInit, TrackingInit
<1>1. TypeOK
  <2>1. retired \in Seq(Download) /\ commands \in Seq(Command)
    OBVIOUS
  <2>2. pages \in PageState
    BY DEF PageState, Protections
  <2>3. images \in [Images -> ImageState]
    BY DEF ImageState, NewImage
  <2>4. QED
    BY <2>1, <2>2, <2>3 DEF TypeOK, Places, GpuState
<1>2. WatchersExact
  <2>1. ASSUME NEW p \in Pages
        PROVE  Cardinality({i \in ImagesOn({p}) : images[i].tracked}) = 0
    <3>1. {i \in ImagesOn({p}) : images[i].tracked} = {}
      BY DEF ImagesOn, NewImage
    <3>2. QED
      BY <3>1, FS_EmptySet
  <2>2. QED
    BY <2>1 DEF WatchersExact, Perms
<1>3. Owners
  BY DEF Owners, DirtyInRanges, DirtyHasOwner, CopiedInRange, UploadOwned, Given, Untracking,
         Idle, Task, Giving
<1>4. CommandsWait
  BY DEF CommandsWait, Idle, Task
<1>5. QED
  BY <1>1, <1>2, <1>3, <1>4 DEF WatchInv

\* Snapshots that grow old keep their number, their ranges and their pages.
LEMMA OutdateFacts ==
    ASSUME NEW downloads \in Seq(Download), NEW range
    PROVE  /\ Outdate(downloads, range) \in Seq(Download)
           /\ DOMAIN Outdate(downloads, range) = DOMAIN downloads
           /\ \A k \in DOMAIN downloads :
                 /\ Outdate(downloads, range)[k].range = downloads[k].range
                 /\ Outdate(downloads, range)[k].copied = downloads[k].copied
                 /\ Outdate(downloads, range)[k].good = downloads[k].good \ range
           /\ Outdate(downloads, range) = <<>> <=> downloads = <<>>
<1> DEFINE u == Outdate(downloads, range)
<1>1. \A k \in DOMAIN downloads : downloads[k] \in Download
  BY ElementOfSeq
<1>2. DOMAIN downloads = 1 .. Len(downloads) /\ Len(downloads) \in Nat
  BY LenProperties
<1>3. DOMAIN u = DOMAIN downloads
  BY DEF Outdate
<1>4. ASSUME NEW k \in DOMAIN downloads
      PROVE  /\ u[k] \in Download /\ u[k].range = downloads[k].range
             /\ u[k].copied = downloads[k].copied /\ u[k].good = downloads[k].good \ range
  <2>1. u[k] = [downloads[k] EXCEPT !.good = downloads[k].good \ range]
    BY DEF Outdate
  <2> HIDE DEF u
  <2>2. QED
    BY <1>1, <2>1 DEF Download
<1>5. u \in Seq(Download)
  <2>1. u \in [1 .. Len(downloads) -> Download]
    <3>1. u = [k \in DOMAIN downloads |-> u[k]]
      BY DEF Outdate
    <3> HIDE DEF u
    <3>2. QED
      BY <1>2, <1>4, <3>1
  <2> HIDE DEF u
  <2>2. QED
    BY <1>2, <2>1, SeqDef
<1>6. u = <<>> <=> downloads = <<>>
  <2> HIDE DEF u
  <2>1. Len(u) = Len(downloads)
    BY <1>2, <1>3, <1>5, LenProperties
  <2>2. QED
    BY <1>5, <2>1, EmptySeq
<1>7. QED
  BY <1>3, <1>4, <1>5, <1>6

\* A write that makes snapshots old disturbs no owner.
LEMMA OwnersOutdate ==
    ASSUME TypeOK, Owners, NEW range, retired' = Outdate(retired, range),
           UNCHANGED <<cpuDirty, gpuDirty, gpuRanges, buffers>>,
           gpu' = gpu \/ (gpu.at = "staged" /\ gpu'.at = "staged")
    PROVE  Owners'
<1>1. retired \in Seq(Download)
  BY DEF TypeOK
<1>2. /\ DOMAIN retired' = DOMAIN retired /\ (retired' = <<>> <=> retired = <<>>)
      /\ \A k \in DOMAIN retired : /\ retired'[k].range = retired[k].range
                                   /\ retired'[k].copied = retired[k].copied
  BY <1>1, OutdateFacts
<1>3. RetiredPages' = RetiredPages
  BY <1>2 DEF RetiredPages
<1>4. retired # <<>> => 1 \in DOMAIN retired
  BY <1>1, EmptySeq, LenProperties
<1>5. DirtyInRanges' /\ DirtyHasOwner' /\ CopiedInRange' /\ UploadOwned'
  BY <1>2, <1>3 DEF Owners, DirtyInRanges, DirtyHasOwner, CopiedInRange, UploadOwned, Registered
<1>6. Given' /\ Untracking'
  BY <1>2, <1>4 DEF Owners, Given, Untracking, Task, Giving, Overlapping
<1>7. QED
  BY <1>5, <1>6 DEF Owners

\* A page whose contents are overwritten has its new copies.
LEMMA OverwriteType ==
    ASSUME TypeOK, NEW range, NEW places \in SUBSET Places, Overwrite(range, places)
    PROVE  copies' \in [Pages -> SUBSET Places]
BY DEF TypeOK, Overwrite

\* A guest store touches contents only.
LEMMA CpuWriteWatch ==
    ASSUME WatchInv, NEW c \in Cpus, NEW p \in Pages, CpuWrite(c, p)
    PROVE  WatchInv'
<1> USE DEF WatchInv
<1>1. TypeOK'
  <2>1. copies' \in [Pages -> SUBSET Places]
    BY OverwriteType DEF CpuWrite, Places
  <2>2. retired' \in Seq(Download)
    BY OutdateFacts DEF CpuWrite, TypeOK
  <2>3. gpu' \in GpuState
    <3>1. CASE gpu.at = "staged"
      BY <3>1, GpuCases DEF CpuWrite, StagedTask, GpuState
    <3>2. CASE gpu.at # "staged"
      BY <3>2 DEF CpuWrite, TypeOK
    <3>3. QED
      BY <3>1, <3>2
  <2>4. QED
    BY <2>1, <2>2, <2>3 DEF TypeOK, CpuWrite, trackingVars
<1>2. gpu' = gpu \/ (gpu.at = "staged" /\ gpu'.at = "staged")
  BY GpuCases DEF CpuWrite, StagedTask
<1>3. Owners'
  BY <1>2, OwnersOutdate DEF CpuWrite, trackingVars
<1>4. WatchersExact'
  BY DEF WatchersExact, CpuWrite, trackingVars, Perms, ImagesOn
<1>5. CommandsWait'
  BY <1>2 DEF CommandsWait, CpuWrite, Task, Waiting
<1>6. QED
  BY <1>1, <1>3, <1>4, <1>5

\* The watchers of a step that changes none.
LEMMA WatchersStay ==
    ASSUME WatchersExact, UNCHANGED <<trackingVars, images>>
    PROVE  WatchersExact'
BY DEF WatchersExact, trackingVars, Perms, ImagesOn

\* A thread that starts to fault or invalidate had no command.
LEMMA CpuStartsWatch ==
    ASSUME WatchInv, NEW c \in Cpus, NEW task \in CpuTask, cpu[c].at \notin {"wait", "unmap"},
           cpu' = [cpu EXCEPT ![c] = task],
           UNCHANGED <<trackingVars, cacheVars, copies, commands, gpu, spoiled>>
    PROVE  WatchInv'
<1> USE DEF WatchInv, trackingVars, cacheVars
<1>1. TypeOK'
  BY DEF TypeOK
<1>2. Owners' /\ WatchersExact'
  BY OwnersStay, WatchersStay
<1>3. CommandsWait'
  <2>1. \A d \in Cpus : Waiting(d) => d # c /\ Waiting(d)'
    BY DEF Waiting, TypeOK
  <2>2. \A k \in DOMAIN commands : commands[k].cpu \in Cpus
    BY SeqTypes DEF Command
  <2>3. Task.at \in {"finish", "unmark", "mark", "erase"} => Task.command.cpu \in Cpus
    BY TaskCases DEF GiveTask, Command
  <2>4. Task' = Task
    BY DEF Task
  <2>5. QED
    BY <2>1, <2>2, <2>3, <2>4 DEF CommandsWait
<1>4. QED
  BY <1>1, <1>2, <1>3

\* A fault, or the start of an invalidation, moves its own thread only.
LEMMA CpuFaultWatch ==
    ASSUME WatchInv, NEW c \in Cpus, NEW p \in Pages, NEW write \in BOOLEAN,
           CpuFault(c, p, write) \/ CpuInvalidate(c, p)
    PROVE  WatchInv'
<1> DEFINE fault == [at |-> "fault", page |-> p, write |-> write]
           invalidate == [at |-> "invalidate", page |-> p, write |-> TRUE]
<1>1. fault \in CpuTask /\ invalidate \in CpuTask
  BY DEF CpuTask
<1>2. cpu[c].at \notin {"wait", "unmap"}
  BY DEF CpuFault, CpuInvalidate, Running
<1>3. CASE CpuFault(c, p, write)
  <2>1. cpu' = [cpu EXCEPT ![c] = fault]
    BY <1>3 DEF CpuFault, Goes
  <2> HIDE DEF fault
  <2>2. QED
    BY <1>1, <1>2, <1>3, <2>1, CpuStartsWatch DEF CpuFault
<1>4. CASE CpuInvalidate(c, p)
  <2>1. cpu' = [cpu EXCEPT ![c] = invalidate]
    BY <1>4 DEF CpuInvalidate, Goes
  <2> HIDE DEF invalidate
  <2>2. QED
    BY <1>1, <1>2, <1>4, <2>1, CpuStartsWatch DEF CpuInvalidate
<1>5. QED
  BY <1>3, <1>4

\* A thread posts a command and waits for it.
LEMMA CommandPosted ==
    ASSUME TypeOK, CommandsWait, NEW c \in Cpus, NEW task \in CpuTask, NEW command \in Command,
           ~Waiting(c), task.at \in {"wait", "unmap"}, command.cpu = c,
           cpu' = [cpu EXCEPT ![c] = task], commands' = Append(commands, command), gpu' = gpu
    PROVE  /\ CommandsWait' /\ commands' \in Seq(Command)
           /\ cpu' \in [Cpus -> {Running} \union CpuTask]
<1> DEFINE Waits(d) == cpu'[d].at \in {"wait", "unmap"}
<1>1. commands \in Seq(Command) /\ cpu \in [Cpus -> {Running} \union CpuTask]
  BY DEF TypeOK
<1>2. /\ commands' \in Seq(Command) /\ Len(commands') = Len(commands) + 1
      /\ \A k \in 1 .. Len(commands) : commands'[k] = commands[k]
      /\ commands'[Len(commands) + 1] = command
  BY <1>1, AppendProperties
<1>3. /\ Len(commands) \in Nat /\ DOMAIN commands = 1 .. Len(commands)
      /\ DOMAIN commands' = 1 .. Len(commands) + 1
  BY <1>1, <1>2, LenProperties
<1>4. \A d \in Cpus : Waiting(d) => d # c /\ Waits(d)
  BY <1>1 DEF Waiting
<1>5. Waits(c)
  BY <1>1 DEF Waiting
<1>6. \A k \in DOMAIN commands : commands[k].cpu \in Cpus
  BY SeqTypes DEF Command
<1>7. \A k \in DOMAIN commands' : k \in DOMAIN commands \/ k = Len(commands) + 1
  BY <1>3
<1>8. Task' = Task
  BY DEF Task
<1>9. Task.at \in {"finish", "unmark", "mark", "erase"} => Task.command.cpu \in Cpus
  BY TaskCases DEF GiveTask, Command
<1>10. \A k \in DOMAIN commands : commands'[k] = commands[k] /\ commands[k].cpu # c
                                  /\ Waits(commands[k].cpu)
  BY <1>2, <1>3, <1>4, <1>6 DEF CommandsWait
<1>11. CommandsWait'
  <2>1. \A k \in DOMAIN commands' : Waits(commands'[k].cpu)
    BY <1>2, <1>5, <1>7, <1>10
  <2>2. \A k, l \in DOMAIN commands' : commands'[k].cpu = commands'[l].cpu => k = l
    BY <1>2, <1>7, <1>10 DEF CommandsWait
  <2>3. Task.at \in {"finish", "unmark", "mark", "erase"} =>
            /\ Waits(Task.command.cpu)
            /\ \A k \in DOMAIN commands' : commands'[k].cpu # Task.command.cpu
    BY <1>2, <1>4, <1>7, <1>8, <1>9, <1>10 DEF CommandsWait
  <2>4. QED
    BY <1>8, <2>1, <2>2, <2>3 DEF CommandsWait, Waiting
<1>12. QED
  BY <1>1, <1>2, <1>11

\* An unmapping thread queues its command and waits for it.
LEMMA CpuUnmapWatch ==
    ASSUME WatchInv, NEW c \in Cpus, NEW p \in Pages, CpuUnmap(c, p)
    PROVE  WatchInv'
<1> USE DEF WatchInv, trackingVars, cacheVars
<1> DEFINE task == [at |-> "unmap", page |-> p, write |-> FALSE]
           command == [cpu |-> c, page |-> p, kind |-> "unmap"]
<1>1. /\ task \in CpuTask /\ command \in Command /\ ~Waiting(c)
      /\ task.at \in {"wait", "unmap"} /\ command.cpu = c
      /\ cpu' = [cpu EXCEPT ![c] = task] /\ commands' = Append(commands, command)
      /\ gpu' = gpu
  BY DEF CpuUnmap, CpuTask, Command, Waiting, Running, Goes
<1> HIDE DEF task, command
<1>2. /\ CommandsWait' /\ commands' \in Seq(Command)
      /\ cpu' \in [Cpus -> {Running} \union CpuTask]
  BY <1>1, CommandPosted
<1>3. TypeOK'
  BY <1>2 DEF TypeOK, CpuUnmap
<1>4. Owners' /\ WatchersExact'
  BY OwnersStay, WatchersStay DEF CpuUnmap
<1>5. QED
  BY <1>2, <1>3, <1>4

\* HandleFault on a page without a watcher protects it as it is protected.
LEMMA HandleFaultWatch ==
    ASSUME WatchInv, NEW c \in Cpus, HandleFault(c)
    PROVE  WatchInv'
<1> USE DEF WatchInv, trackingVars, cacheVars
<1> DEFINE p == cpu[c].page
<1>1. cpu[c].at = "fault" /\ cpu[c] \in CpuTask /\ p \in Pages /\ ~Waiting(c)
  BY CpuCases DEF HandleFault, CpuTask, Waiting
<1>2. Owners'
  BY OwnersStay DEF HandleFault, RestoreProtection
<1>3. CASE RestoreProtection(p) /\ Goes(c, Running) /\ UNCHANGED commands
  <2>1. pages' = pages
    <3>1. pages \in PageState /\ pages.prot[p] = Perms(pages, p)
      BY <1>1 DEF TypeOK, WatchersExact
    <3>2. pages' = [pages EXCEPT !.prot = [pages.prot EXCEPT ![p] = Perms(pages, p)]]
      BY <1>3 DEF RestoreProtection
    <3>3. [pages.prot EXCEPT ![p] = Perms(pages, p)] = pages.prot
      BY <1>1, <3>1 DEF PageState
    <3>4. QED
      BY <3>1, <3>2, <3>3 DEF PageState
  <2>2. WatchersExact'
    BY <1>3, <2>1, WatchersStay DEF HandleFault, RestoreProtection
  <2>3. TypeOK'
    BY <1>3, <2>1 DEF TypeOK, HandleFault, RestoreProtection, Goes
  <2>4. CommandsWait'
    <3>1. \A d \in Cpus : Waiting(d) => Waiting(d)'
      BY <1>1, <1>3 DEF Goes, Waiting, TypeOK
    <3>2. \A k \in DOMAIN commands : commands[k].cpu \in Cpus
      BY SeqTypes DEF Command
    <3>3. Task.at \in {"finish", "unmark", "mark", "erase"} => Task.command.cpu \in Cpus
      BY TaskCases DEF GiveTask, Command
    <3>4. Task' = Task /\ commands' = commands
      BY <1>3 DEF Task, HandleFault
    <3>5. QED
      BY <3>1, <3>2, <3>3, <3>4 DEF CommandsWait
  <2>5. QED
    BY <1>2, <2>2, <2>3, <2>4
<1>4. CASE Goes(c, [cpu[c] EXCEPT !.at = "invalidate"]) /\ UNCHANGED <<trackingVars, commands>>
  <2> DEFINE task == [cpu[c] EXCEPT !.at = "invalidate"]
  <2>1. task \in CpuTask /\ cpu' = [cpu EXCEPT ![c] = task]
    BY <1>1, <1>4 DEF CpuTask, Goes
  <2> HIDE DEF task
  <2>2. QED
    BY <1>1, <1>4, <2>1, CpuStartsWatch DEF HandleFault, Waiting
<1>5. CASE /\ Goes(c, [cpu[c] EXCEPT !.at = "wait"])
           /\ commands' = Append(commands, [cpu |-> c, page |-> p, kind |-> "read"])
           /\ UNCHANGED trackingVars
  <2> DEFINE task == [cpu[c] EXCEPT !.at = "wait"]
             command == [cpu |-> c, page |-> p, kind |-> "read"]
  <2>1. /\ task \in CpuTask /\ command \in Command
        /\ task.at \in {"wait", "unmap"} /\ command.cpu = c
        /\ cpu' = [cpu EXCEPT ![c] = task] /\ commands' = Append(commands, command)
        /\ gpu' = gpu
    BY <1>1, <1>5 DEF HandleFault, CpuTask, Command, Goes
  <2> HIDE DEF task, command
  <2>2. /\ CommandsWait' /\ commands' \in Seq(Command)
        /\ cpu' \in [Cpus -> {Running} \union CpuTask]
    BY <1>1, <2>1, CommandPosted
  <2>3. TypeOK'
    BY <1>5, <2>2 DEF TypeOK, HandleFault
  <2>4. WatchersExact'
    BY <1>5, WatchersStay DEF HandleFault
  <2>5. QED
    BY <1>2, <2>2, <2>3, <2>4
<1>6. QED
  BY <1>3, <1>4, <1>5 DEF HandleFault

\* A thread that does not wait for a command goes on.
LEMMA CommandsKeep ==
    ASSUME TypeOK, CommandsWait, NEW c \in Cpus, ~Waiting(c), NEW task,
           cpu' = [cpu EXCEPT ![c] = task], UNCHANGED <<commands, gpu>>
    PROVE  CommandsWait'
<1>1. \A d \in Cpus : Waiting(d) => Waiting(d)'
  BY DEF Waiting, TypeOK
<1>2. \A k \in DOMAIN commands : commands[k].cpu \in Cpus
  BY SeqTypes DEF Command
<1>3. Task.at \in {"finish", "unmark", "mark", "erase"} => Task.command.cpu \in Cpus
  BY TaskCases DEF GiveTask, Command
<1>4. Task' = Task
  BY DEF Task
<1>5. QED
  BY <1>1, <1>2, <1>3, <1>4 DEF CommandsWait

\* Only the range that is being uploaded for a write is closed to the CPU.
LEMMA OwnersCpu ==
    ASSUME Owners, UNCHANGED <<gpuDirty, gpuRanges, buffers, retired, gpu>>,
           gpu.at = "upload" /\ gpu.written => gpu.range \intersect cpuDirty' = {}
    PROVE  Owners'
BY DEF Owners, DirtyInRanges, DirtyHasOwner, CopiedInRange, UploadOwned, Given, Untracking,
       Registered, RetiredPages, Overlapping, Task

\* MarkCpu on pages the GPU does not own.
LEMMA MarkCpuExact ==
    ASSUME TypeOK, WatchersExact, NEW range \in SUBSET Pages, range \intersect gpuDirty = {},
           MarkCpu(range), UNCHANGED <<gpuDirty, images>>
    PROVE  WatchersExact' /\ pages' \in PageState /\ cpuDirty' \in SUBSET Pages
<1>1. ExactFor(pages, cpuDirty, gpuDirty, images)
  BY WatchersExactFor
<1>2. ExactFor(UpdateWatchers(pages, range \ cpuDirty, FALSE, FALSE), cpuDirty \union range,
               gpuDirty, images)
  BY <1>1, CpuOwnsExact
<1>3. ExactFor(pages', cpuDirty', gpuDirty', images')
  BY <1>2 DEF MarkCpu, CpuOwns
<1>4. QED
  BY <1>3, NextWatchersExact DEF MarkCpu, TypeOK

\* InvalidateRegion gives the page to the CPU or queues a readback for it.
LEMMA InvalidateBuffersWatch ==
    ASSUME WatchInv, NEW c \in Cpus, InvalidateBuffers(c)
    PROVE  WatchInv'
<1> USE DEF WatchInv, cacheVars
<1> DEFINE p == cpu[c].page
<1>1. cpu[c].at = "invalidate" /\ cpu[c] \in CpuTask /\ p \in Pages /\ ~Waiting(c)
  BY CpuCases DEF InvalidateBuffers, CpuTask, Waiting
<1>2. CASE /\ p \in gpuDirty
           /\ commands' = Append(commands, [cpu |-> c, page |-> p, kind |-> "write"])
           /\ Goes(c, [cpu[c] EXCEPT !.at = "wait"])
           /\ UNCHANGED trackingVars
  <2> DEFINE task == [cpu[c] EXCEPT !.at = "wait"]
             command == [cpu |-> c, page |-> p, kind |-> "write"]
  <2>1. /\ task \in CpuTask /\ command \in Command
        /\ task.at \in {"wait", "unmap"} /\ command.cpu = c
        /\ cpu' = [cpu EXCEPT ![c] = task] /\ commands' = Append(commands, command)
        /\ gpu' = gpu
    BY <1>1, <1>2 DEF InvalidateBuffers, CpuTask, Command, Goes
  <2> HIDE DEF task, command
  <2>2. /\ CommandsWait' /\ commands' \in Seq(Command)
        /\ cpu' \in [Cpus -> {Running} \union CpuTask]
    BY <1>1, <2>1, CommandPosted
  <2>3. TypeOK'
    BY <1>2, <2>2 DEF TypeOK, InvalidateBuffers, trackingVars
  <2>4. WatchersExact' /\ Owners'
    BY <1>2, WatchersStay, OwnersStay DEF InvalidateBuffers, trackingVars
  <2>5. QED
    BY <2>2, <2>3, <2>4
<1>3. CASE /\ p \notin gpuDirty
           /\ MarkCpu({p}) /\ Goes(c, [cpu[c] EXCEPT !.at = "texture"])
           /\ UNCHANGED <<gpuDirty, commands>>
  <2> DEFINE task == [cpu[c] EXCEPT !.at = "texture"]
  <2>1. task \in CpuTask /\ cpu' = [cpu EXCEPT ![c] = task]
    BY <1>1, <1>3 DEF CpuTask, Goes
  <2> HIDE DEF task
  <2>2. WatchersExact' /\ pages' \in PageState /\ cpuDirty' \in SUBSET Pages
    BY <1>1, <1>3, MarkCpuExact DEF InvalidateBuffers
  <2>3. TypeOK'
    BY <1>3, <2>1, <2>2 DEF TypeOK, InvalidateBuffers
  <2>4. Owners'
    BY <1>3, OwnersCpu DEF InvalidateBuffers, RegionLocked
  <2>5. CommandsWait'
    BY <1>1, <1>3, <2>1, CommandsKeep DEF InvalidateBuffers
  <2>6. QED
    BY <2>2, <2>3, <2>4, <2>5
<1>4. QED
  BY <1>2, <1>3 DEF InvalidateBuffers

\* The images on a page become dirty and untracked.
LEMMA InvalidateImagesExact ==
    ASSUME TypeOK, WatchersExact, NEW p,
           pages' = UntrackImages(pages, ImagesOn({p})), images' = InvalidateImages(p),
           UNCHANGED <<cpuDirty, gpuDirty>>
    PROVE  WatchersExact' /\ pages' \in PageState /\ images' \in [Images -> ImageState]
<1> DEFINE is == ImagesOn({p})
<1>1. is \in SUBSET Images
  BY DEF ImagesOn
<1>2. images \in [Images -> ImageState]
  BY DEF TypeOK
<1>3. /\ images' \in [Images -> ImageState]
      /\ \A j \in is : ~images'[j].tracked
      /\ \A j \in Images \ is : images'[j].tracked = images[j].tracked
  <2>1. \A j \in Images : images[j] \in ImageState
    BY <1>2
  <2>2. \A j \in Images : images'[j] = IF j \in is
                             THEN [images[j] EXCEPT !.tracked = FALSE, !.cpuDirty = TRUE]
                             ELSE images[j]
    BY DEF InvalidateImages
  <2>3. images' = [j \in Images |-> images'[j]]
    BY DEF InvalidateImages
  <2>4. \A j \in is : images'[j] \in ImageState /\ ~images'[j].tracked
    BY <1>1, <2>1, <2>2 DEF ImageState
  <2>5. \A j \in Images \ is : images'[j] = images[j]
    BY <2>2
  <2> HIDE DEF is
  <2>6. QED
    BY <2>1, <2>3, <2>4, <2>5
<1>4. ExactFor(pages, cpuDirty, gpuDirty, images)
  BY WatchersExactFor
<1>5. ExactFor(UntrackImages(pages, is), cpuDirty, gpuDirty, images')
  <2> HIDE DEF is
  <2>1. QED
    BY <1>1, <1>3, <1>4, UntrackExact
<1>6. ExactFor(pages', cpuDirty', gpuDirty', images')
  BY <1>5
<1>7. QED
  BY <1>3, <1>6, NextWatchersExact

\* Untracking the images of a page takes their watchers away with them.
LEMMA InvalidateTexturesWatch ==
    ASSUME WatchInv, NEW c \in Cpus, InvalidateTextures(c)
    PROVE  WatchInv'
<1> USE DEF WatchInv
<1>1. ~Waiting(c) /\ cpu' = [cpu EXCEPT ![c] = Running]
  BY DEF InvalidateTextures, Waiting, Goes
<1>2. WatchersExact' /\ pages' \in PageState /\ images' \in [Images -> ImageState]
  BY InvalidateImagesExact DEF InvalidateTextures
<1>3. TypeOK'
  BY <1>1, <1>2 DEF TypeOK, InvalidateTextures
<1>4. Owners'
  BY OwnersStay DEF InvalidateTextures
<1>5. CommandsWait'
  BY <1>1, CommandsKeep DEF InvalidateTextures
<1>6. QED
  BY <1>2, <1>3, <1>4, <1>5

\* A new buffer has the range it was made for, and all pages that had a buffer.
LEMMA GetOrCreateBufferFacts ==
    ASSUME TypeOK, NEW range \in SUBSET Pages, GetOrCreateBuffer(range)
    PROVE  /\ buffers' \in SUBSET SUBSET Pages /\ spoiled' \in SUBSET Pages
           /\ range \subseteq Registered' /\ Registered \subseteq Registered'
<1>1. range \subseteq Aligned(range) /\ Aligned(range) \subseteq Pages
  BY DEF Aligned
<1>2. buffers \in SUBSET SUBSET Pages /\ spoiled \in SUBSET Pages
  BY DEF TypeOK
<1>3. RetiredPages \subseteq Pages
  BY SeqTypes DEF RetiredPages, Download
<1>4. Merged(range) \subseteq Pages /\ range \subseteq Merged(range)
  BY <1>1, <1>2 DEF Merged, Overlapping
<1>5. spoiled' \in SUBSET Pages
  BY <1>2, <1>3 DEF GetOrCreateBuffer
<1>6. CASE Owned(range)
  <2>1. buffers' = buffers
    BY <1>6 DEF GetOrCreateBuffer
  <2>2. QED
    BY <1>2, <1>5, <1>6, <2>1 DEF Owned, Registered
<1>7. CASE ~Owned(range)
  <2>1. buffers' = (buffers \ Overlapping(Aligned(range))) \union {Merged(range)}
    BY <1>7 DEF GetOrCreateBuffer
  <2>2. \A b \in Overlapping(Aligned(range)) : b \subseteq Merged(range)
    BY DEF Merged
  <2>3. Registered \subseteq Registered'
    BY <2>1, <2>2 DEF Registered
  <2>4. QED
    BY <1>2, <1>4, <1>5, <2>1, <2>3 DEF Registered
<1>8. QED
  BY <1>6, <1>7

\* ClearCpu gives the pages a watcher again.
LEMMA ClearCpuExact ==
    ASSUME TypeOK, WatchersExact, NEW range \in SUBSET Pages,
           ClearCpu(range), gpuDirty' = gpuDirty,
           \A j \in Images : images'[j].tracked = images[j].tracked
    PROVE  WatchersExact' /\ pages' \in PageState /\ cpuDirty' \in SUBSET Pages
<1>1. ExactFor(pages, cpuDirty, gpuDirty, images)
  BY WatchersExactFor
<1>2. ExactFor(UpdateWatchers(pages, range \intersect cpuDirty, TRUE, FALSE), cpuDirty \ range,
               gpuDirty, images)
  BY <1>1, CpuLosesExact
<1>3. ExactFor(pages', cpuDirty', gpuDirty', images)
  BY <1>2 DEF ClearCpu, CpuLoses
<1>4. ExactFor(pages', cpuDirty', gpuDirty', images')
  BY <1>3, SameTracking
<1>5. QED
  BY <1>4, NextWatchersExact DEF ClearCpu, TypeOK

\* A write marks the images on its range, or the clean ones of them miss it; no image becomes
\* clean or is watched otherwise.
LEMMA MarkImagesFacts ==
    ASSUME TypeOK, NEW range \in SUBSET Pages, NEW written \in BOOLEAN, NEW formatted \in BOOLEAN,
           images' = IF written THEN MarkImages(range, formatted) ELSE images
    PROVE  /\ images' \in [Images -> ImageState]
           /\ \A j \in Images :
                 /\ images'[j].tracked = images[j].tracked
                 /\ images'[j].cpuDirty = images[j].cpuDirty
                 /\ Clean(images'[j]) => Clean(images[j]) /\ images[j].missed \subseteq images'[j].missed
                 /\ written /\ Clean(images'[j]) => ImagePages[j] \intersect range \subseteq images'[j].missed
<1>1. images \in [Images -> ImageState] /\ \A j \in Images : images[j] \in ImageState
  BY DEF TypeOK
<1>2. CASE ~written
  BY <1>1, <1>2
<1>3. CASE written
  <2> DEFINE marked(j) ==
        [images[j] EXCEPT !.bufferModified = @ \/ (formatted /\ j \in ImagesOn(range)),
                          !.missed = IF ~formatted /\ Clean(images[j])
                                     THEN @ \union (ImagePages[j] \intersect range) ELSE @]
  <2>1. images' = [j \in Images |-> marked(j)]
    BY <1>3 DEF MarkImages
  <2>2. ASSUME NEW j \in Images
        PROVE  /\ marked(j) \in ImageState
               /\ marked(j).tracked = images[j].tracked
               /\ marked(j).cpuDirty = images[j].cpuDirty
               /\ marked(j).bufferModified = (images[j].bufferModified
                                              \/ (formatted /\ j \in ImagesOn(range)))
               /\ marked(j).missed = IF ~formatted /\ Clean(images[j])
                                     THEN images[j].missed \union (ImagePages[j] \intersect range)
                                     ELSE images[j].missed
    BY <1>1 DEF ImageState
  <2>3. \A j \in Images : images'[j] = marked(j)
    BY <2>1
  <2> HIDE DEF marked
  <2>4. images' \in [Images -> ImageState]
    BY <2>1, <2>2
  <2>5. ASSUME NEW j \in Images
        PROVE  /\ Clean(marked(j)) => Clean(images[j]) /\ images[j].missed \subseteq marked(j).missed
               /\ Clean(marked(j)) => ImagePages[j] \intersect range \subseteq marked(j).missed
    <3>1. j \in ImagesOn(range) <=> ImagePages[j] \intersect range # {}
      BY DEF ImagesOn
    <3>2. QED
      BY <2>2, <3>1 DEF Clean
  <2>6. QED
    BY <2>2, <2>3, <2>4, <2>5
<1>4. QED
  BY <1>2, <1>3

\* ObtainBuffer clears the CPU side of its range and starts the upload.
LEMMA ObtainBufferWatch ==
    ASSUME WatchInv, NEW range \in SUBSET Pages, NEW written \in BOOLEAN,
           NEW formatted \in BOOLEAN, ObtainBuffer(range, written, formatted)
    PROVE  WatchInv'
<1> USE DEF WatchInv
<1> DEFINE task == [at |-> "upload", range |-> range, uploads |-> range \intersect cpuDirty,
                    written |-> written]
<1>1. gpu' = task /\ gpu = Idle /\ task \in UploadTask
  BY DEF ObtainBuffer, UploadTask, TypeOK
<1>2. /\ images' \in [Images -> ImageState]
      /\ \A j \in Images : images'[j].tracked = images[j].tracked
  BY MarkImagesFacts DEF ObtainBuffer
<1>3. WatchersExact' /\ pages' \in PageState /\ cpuDirty' \in SUBSET Pages
  BY <1>2, ClearCpuExact DEF ObtainBuffer
<1>4. /\ buffers' \in SUBSET SUBSET Pages /\ spoiled' \in SUBSET Pages
      /\ range \subseteq Registered' /\ Registered \subseteq Registered'
  BY GetOrCreateBufferFacts DEF ObtainBuffer
<1>5. TypeOK'
  BY <1>1, <1>2, <1>3, <1>4 DEF TypeOK, ObtainBuffer, GpuState
<1>6. Owners'
  <2>1. /\ gpu'.at = "upload" /\ gpu'.range = range /\ gpu'.uploads = range \intersect cpuDirty
        /\ gpu.at = "idle"
    BY <1>1 DEF Idle
  <2>2. gpuDirty' = gpuDirty /\ gpuRanges' = gpuRanges /\ retired' = retired
        /\ cpuDirty' = cpuDirty \ range
    BY DEF ObtainBuffer, ClearCpu
  <2>3. RetiredPages' = RetiredPages
    BY <2>2 DEF RetiredPages
  <2>4. DirtyInRanges' /\ DirtyHasOwner' /\ CopiedInRange'
    BY <1>4, <2>1, <2>2, <2>3 DEF Owners, DirtyInRanges, DirtyHasOwner, CopiedInRange
  <2>5. UploadOwned'
    BY <1>4, <2>1, <2>2 DEF UploadOwned, WatchersExact
  <2>6. Given' /\ Untracking'
    BY <2>1 DEF Given, Untracking, Task, Giving
  <2>7. QED
    BY <2>4, <2>5, <2>6 DEF Owners
<1>7. CommandsWait'
  <2>1. Task'.at = "upload"
    BY <1>1 DEF Task
  <2>2. QED
    BY <2>1 DEF CommandsWait, Waiting, ObtainBuffer
<1>8. QED
  BY <1>3, <1>5, <1>6, <1>7

\* Copies from one place to another are of the places there are.
LEMMA CopyPagesType ==
    ASSUME NEW c \in [Pages -> SUBSET Places], NEW range, NEW from, NEW to \in Places
    PROVE  CopyPages(c, range, from, to) \in [Pages -> SUBSET Places]
BY DEF CopyPages

\* MarkGpu on pages the CPU does not own.
LEMMA MarkGpuExact ==
    ASSUME TypeOK, WatchersExact, NEW range \in SUBSET Pages, range \intersect cpuDirty = {},
           MarkGpu(range), UNCHANGED <<cpuDirty, images>>
    PROVE  WatchersExact' /\ pages' \in PageState /\ gpuDirty' \in SUBSET Pages
<1>1. ExactFor(pages, cpuDirty, gpuDirty, images)
  BY WatchersExactFor
<1>2. ExactFor(UpdateWatchers(pages, range \ gpuDirty, TRUE, TRUE), cpuDirty,
               gpuDirty \union range, images)
  BY <1>1, GpuOwnsExact DEF WatchersExact
<1>3. ExactFor(pages', cpuDirty', gpuDirty', images')
  BY <1>2 DEF MarkGpu, GpuOwns
<1>4. QED
  BY <1>3, NextWatchersExact DEF MarkGpu, TypeOK

\* Taking GPU ownership away keeps the watchers exact.
LEMMA UnmarkGpuExact ==
    ASSUME TypeOK, WatchersExact, NEW range \in SUBSET Pages, UnmarkGpu(range),
           UNCHANGED <<cpuDirty, images>>
    PROVE  WatchersExact' /\ pages' \in PageState /\ gpuDirty' \in SUBSET Pages
<1>1. ExactFor(pages, cpuDirty, gpuDirty, images)
  BY WatchersExactFor
<1>2. ExactFor(UpdateWatchers(pages, range \intersect gpuDirty, FALSE, TRUE), cpuDirty,
               gpuDirty \ range, images)
  BY <1>1, GpuLosesExact
<1>3. ExactFor(pages', cpuDirty', gpuDirty', images')
  BY <1>2 DEF UnmarkGpu, GpuLoses
<1>4. QED
  BY <1>3, NextWatchersExact DEF UnmarkGpu, TypeOK

\* The upload of a buffer the GPU writes takes the GPU side of its range.
LEMMA UploadWatch ==
    ASSUME WatchInv, Upload
    PROVE  WatchInv'
<1> USE DEF WatchInv
<1>1. gpu.at = "upload" /\ gpu \in UploadTask /\ gpu' = Idle /\ Idle.at = "idle"
  BY GpuCases DEF Upload
<1>2. gpu.range \in SUBSET Pages /\ gpu.written \in BOOLEAN
  BY <1>1 DEF UploadTask
<1> DEFINE uploaded == CopyPages(copies, gpu.uploads, "mem", "buf")
<1>3. uploaded \in [Pages -> SUBSET Places]
  BY CopyPagesType DEF TypeOK, Places
<1>4. gpu' \in GpuState
  BY <1>1 DEF GpuState
<1>5. CommandsWait'
  BY <1>1 DEF CommandsWait, Waiting, Task, Upload
<1>6. CASE /\ ~gpu.written /\ copies' = uploaded
           /\ UNCHANGED <<trackingVars, gpuRanges, retired>>
  <2> USE DEF trackingVars
  <2>1. TypeOK'
    <3> HIDE DEF uploaded
    <3>1. QED
      BY <1>3, <1>4, <1>6 DEF TypeOK, Upload
  <2>2. WatchersExact'
    BY <1>6, WatchersStay DEF Upload
  <2>3. Owners'
    BY <1>1, <1>6 DEF Owners, DirtyInRanges, DirtyHasOwner, CopiedInRange, UploadOwned, Given,
                      Untracking, Registered, RetiredPages, Task, Giving, Upload
  <2>4. QED
    BY <1>5, <2>1, <2>2, <2>3
<1>7. CASE /\ gpu.written
           /\ MarkGpu(gpu.range)
           /\ gpuRanges' = gpuRanges \union gpu.range
           /\ copies' = [p \in Pages |-> IF p \in gpu.range THEN {"buf"} ELSE uploaded[p]]
           /\ retired' = Outdate(retired, gpu.range)
           /\ UNCHANGED cpuDirty
  <2>1. copies' \in [Pages -> SUBSET Places]
    <3> HIDE DEF uploaded
    <3>1. QED
      BY <1>3, <1>7 DEF Places
  <2>2. /\ retired' \in Seq(Download) /\ DOMAIN retired' = DOMAIN retired
        /\ \A k \in DOMAIN retired : /\ retired'[k].range = retired[k].range
                                     /\ retired'[k].copied = retired[k].copied
    BY <1>7, OutdateFacts DEF TypeOK
  <2>3. WatchersExact' /\ pages' \in PageState /\ gpuDirty' \in SUBSET Pages
    BY <1>1, <1>2, <1>7, MarkGpuExact DEF Owners, UploadOwned, Upload
  <2>4. TypeOK'
    BY <1>2, <1>4, <1>7, <2>1, <2>2, <2>3 DEF TypeOK, Upload
  <2>5. gpuDirty' = gpuDirty \union gpu.range
    BY <1>7 DEF MarkGpu
  <2>6. RetiredPages' = RetiredPages /\ Registered' = Registered
    BY <2>2 DEF RetiredPages, Registered, Upload
  <2>7. DirtyInRanges' /\ DirtyHasOwner'
    BY <1>1, <1>7, <2>5, <2>6 DEF Owners, DirtyInRanges, DirtyHasOwner, UploadOwned
  <2>8. CopiedInRange' /\ UploadOwned' /\ Given' /\ Untracking'
    BY <1>1, <2>2 DEF Owners, CopiedInRange, UploadOwned, Given, Untracking, Task, Giving
  <2>9. QED
    BY <1>5, <2>3, <2>4, <2>7, <2>8 DEF Owners
<1>8. QED
  BY <1>6, <1>7 DEF Upload

\* A write of guest memory by the GPU thread invalidates the images on the page.
LEMMA WriteHostMemoryWatch ==
    ASSUME WatchInv, NEW p \in Pages, WriteHostMemory(p)
    PROVE  WatchInv'
<1> USE DEF WatchInv
<1>1. WatchersExact' /\ pages' \in PageState /\ images' \in [Images -> ImageState]
  BY InvalidateImagesExact DEF WriteHostMemory
<1>2. copies' \in [Pages -> SUBSET Places]
  BY OverwriteType DEF WriteHostMemory, Places
<1>3. retired' \in Seq(Download)
  BY OutdateFacts DEF WriteHostMemory, TypeOK
<1>4. TypeOK'
  BY <1>1, <1>2, <1>3 DEF TypeOK, WriteHostMemory
<1>5. Owners'
  BY OwnersOutdate DEF WriteHostMemory
<1>6. CommandsWait'
  BY CommandsStay DEF WriteHostMemory
<1>7. QED
  BY <1>1, <1>4, <1>5, <1>6

\* A step that only ends the process, or none.
LEMMA StayWatch ==
    ASSUME WatchInv,
           UNCHANGED <<trackingVars, cacheVars, copies, cpu, commands, gpu, spoiled>>
    PROVE  WatchInv'
<1> USE DEF WatchInv, trackingVars, cacheVars
<1>1. TypeOK'
  BY DEF TypeOK
<1>2. Owners' /\ WatchersExact' /\ CommandsWait'
  BY OwnersStay, WatchersStay, CommandsStay
<1>3. QED
  BY <1>1, <1>2

\* The first command is taken: the others are of other threads.
LEMMA CommandTaken ==
    ASSUME TypeOK, CommandsWait, commands # <<>>, commands' = Tail(commands)
    PROVE  /\ commands' \in Seq(Command) /\ Head(commands) \in Command
           /\ Waiting(Head(commands).cpu)
           /\ \A k \in DOMAIN commands' :
                 k + 1 \in DOMAIN commands /\ commands'[k] = commands[k + 1]
           /\ \A k \in DOMAIN commands' : commands'[k].cpu \in Cpus \ {Head(commands).cpu}
           /\ \A k, l \in DOMAIN commands' : commands'[k].cpu = commands'[l].cpu => k = l
<1>1. commands \in Seq(Command)
  BY DEF TypeOK
<1>2. /\ DOMAIN commands = 1 .. Len(commands) /\ Len(commands) \in Nat
      /\ 1 \in DOMAIN commands /\ Head(commands) = commands[1]
      /\ \A k \in DOMAIN commands : commands[k] \in Command
  BY SeqTypes
<1>3. /\ commands' \in Seq(Command) /\ Len(commands') = Len(commands) - 1
      /\ \A k \in 1 .. Len(commands') : commands'[k] = commands[k + 1]
  BY <1>1, HeadTailProperties
<1>4. DOMAIN commands' = 1 .. Len(commands) - 1
  BY <1>3, LenProperties
<1>5. ASSUME NEW k \in DOMAIN commands'
      PROVE  k \in Nat /\ k + 1 \in DOMAIN commands /\ k + 1 # 1 /\ commands'[k] = commands[k + 1]
  BY <1>2, <1>3, <1>4
<1>6. \A k \in DOMAIN commands' : commands'[k].cpu \in Cpus \ {Head(commands).cpu}
  BY <1>2, <1>5 DEF CommandsWait, Command
<1>7. ASSUME NEW k \in DOMAIN commands', NEW l \in DOMAIN commands',
             commands'[k].cpu = commands'[l].cpu
      PROVE  k = l
  <2>1. k + 1 = l + 1
    BY <1>5, <1>7 DEF CommandsWait
  <2>2. QED
    BY <1>5, <2>1
<1>8. QED
  BY <1>2, <1>3, <1>5, <1>6, <1>7 DEF CommandsWait

\* The thread of a command goes on; the others stay where they are.
LEMMA ReplyFacts ==
    ASSUME TypeOK, NEW command \in Command, Waiting(command.cpu), Reply(command)
    PROVE  /\ cpu' \in [Cpus -> {Running} \union CpuTask]
           /\ \A d \in Cpus \ {command.cpu} : cpu'[d] = cpu[d]
<1> DEFINE c == command.cpu
           task == IF command.kind = "write" THEN [cpu[c] EXCEPT !.at = "texture"] ELSE Running
<1>1. c \in Cpus /\ cpu \in [Cpus -> {Running} \union CpuTask]
  BY DEF TypeOK, Command
<1>2. cpu[c] \in CpuTask
  BY <1>1, CpuCases DEF Waiting
<1>3. task \in {Running} \union CpuTask
  BY <1>2 DEF CpuTask
<1>4. cpu' = [cpu EXCEPT ![c] = task]
  BY DEF Reply, Goes
<1> HIDE DEF task
<1>5. QED
  BY <1>1, <1>3, <1>4

\* The command that was taken is answered at once.
LEMMA TakenAndAnswered ==
    ASSUME TypeOK, CommandsWait, gpu = Idle, commands # <<>>, commands' = Tail(commands),
           Reply(Head(commands)), gpu' = gpu
    PROVE  /\ CommandsWait' /\ commands' \in Seq(Command)
           /\ cpu' \in [Cpus -> {Running} \union CpuTask]
<1>1. /\ commands' \in Seq(Command) /\ Head(commands) \in Command
      /\ Waiting(Head(commands).cpu)
      /\ \A k \in DOMAIN commands' :
            k + 1 \in DOMAIN commands /\ commands'[k] = commands[k + 1]
      /\ \A k \in DOMAIN commands' : commands'[k].cpu \in Cpus \ {Head(commands).cpu}
      /\ \A k, l \in DOMAIN commands' : commands'[k].cpu = commands'[l].cpu => k = l
  BY CommandTaken
<1>2. /\ cpu' \in [Cpus -> {Running} \union CpuTask]
      /\ \A d \in Cpus \ {Head(commands).cpu} : cpu'[d] = cpu[d]
  BY <1>1, ReplyFacts
<1>3. \A k \in DOMAIN commands' : cpu'[commands'[k].cpu].at \in {"wait", "unmap"}
  BY <1>1, <1>2 DEF CommandsWait, Waiting
<1>4. Task'.at = "idle"
  BY DEF Task, Idle
<1>5. CommandsWait'
  BY <1>1, <1>3, <1>4 DEF CommandsWait, Waiting
<1>6. QED
  BY <1>1, <1>2, <1>5

\* The command that was taken is being worked on.
LEMMA TakenAndHeld ==
    ASSUME TypeOK, CommandsWait, commands # <<>>, commands' = Tail(commands), cpu' = cpu,
           NEW range \in SUBSET Pages,
           gpu' = [at |-> "finish", command |-> Head(commands), range |-> range]
    PROVE  CommandsWait' /\ commands' \in Seq(Command) /\ gpu' \in GpuState
<1>1. /\ commands' \in Seq(Command) /\ Head(commands) \in Command
      /\ Waiting(Head(commands).cpu)
      /\ \A k \in DOMAIN commands' :
            k + 1 \in DOMAIN commands /\ commands'[k] = commands[k + 1]
      /\ \A k \in DOMAIN commands' : commands'[k].cpu \in Cpus \ {Head(commands).cpu}
      /\ \A k, l \in DOMAIN commands' : commands'[k].cpu = commands'[l].cpu => k = l
  BY CommandTaken
<1>2. Task' = gpu' /\ gpu'.at = "finish" /\ gpu'.command = Head(commands)
  BY DEF Task
<1>3. CommandsWait'
  BY <1>1, <1>2 DEF CommandsWait, Waiting
<1>4. gpu' \in GiveTask
  BY <1>1 DEF GiveTask
<1>5. QED
  BY <1>1, <1>3, <1>4 DEF GpuState

\* The step from an idle GPU thread to a command, for the owners.
LEMMA OwnersTaken ==
    ASSUME Owners, gpu = Idle, UNCHANGED <<cpuDirty, gpuDirty, gpuRanges, buffers, retired>>,
           NEW command, gpu' = [at |-> "finish", command |-> command, range |-> {command.page}]
    PROVE  Owners'
<1>1. gpu.at = "idle" /\ gpu'.at = "finish" /\ Task' = gpu' /\ gpu'.command = command
      /\ gpu'.range = {command.page}
  BY DEF Idle, Task
<1>2. QED
  BY <1>1 DEF Owners, DirtyInRanges, DirtyHasOwner, CopiedInRange, UploadOwned, Given,
              Untracking, Registered, RetiredPages, Giving

\* A readback command starts a publication, or answers at once.
LEMMA ReadMemoryWatch ==
    ASSUME WatchInv, ReadMemory
    PROVE  WatchInv'
<1> USE DEF WatchInv, cacheVars
<1> DEFINE command == Head(commands)
           p == command.page
           write == command.kind = "write"
           found == p \in gpuDirty \intersect gpuRanges
<1>1. gpu = Idle /\ commands # <<>>
  BY DEF ReadMemory
<1>2. command \in Command /\ p \in Pages
  BY <1>1, SeqTypes DEF Command
<1>3. CASE /\ Reply(command) /\ commands' = Tail(commands)
           /\ UNCHANGED <<trackingVars, cacheVars, copies, gpu, spoiled, halted>>
  <2> USE DEF trackingVars
  <2>1. /\ CommandsWait' /\ commands' \in Seq(Command)
        /\ cpu' \in [Cpus -> {Running} \union CpuTask]
    BY <1>1, <1>3, TakenAndAnswered
  <2>2. TypeOK'
    BY <1>3, <2>1 DEF TypeOK
  <2>3. WatchersExact' /\ Owners'
    BY <1>3, WatchersStay, OwnersStay
  <2>4. QED
    BY <2>1, <2>2, <2>3
<1>4. CASE Halt("readback has no buffer owner")
  BY <1>4, StayWatch DEF Halt
<1>5. CASE /\ ~found
           /\ IF write THEN MarkCpu({p}) ELSE UNCHANGED <<pages, cpuDirty>>
           /\ Reply(command) /\ commands' = Tail(commands)
           /\ UNCHANGED <<gpuDirty, cacheVars, copies, gpu, spoiled, halted>>
  <2>1. /\ CommandsWait' /\ commands' \in Seq(Command)
        /\ cpu' \in [Cpus -> {Running} \union CpuTask]
    BY <1>1, <1>5, TakenAndAnswered
  <2>2. p \notin gpuDirty
    BY <1>1, <1>5 DEF Owners, DirtyInRanges, Idle
  <2>3. WatchersExact' /\ pages' \in PageState /\ cpuDirty' \in SUBSET Pages
    <3>1. CASE write
      BY <1>2, <1>5, <2>2, <3>1, MarkCpuExact
    <3>2. CASE ~write
      BY <1>5, <3>2, WatchersStay DEF TypeOK, trackingVars
    <3>3. QED
      BY <3>1, <3>2
  <2>4. TypeOK'
    BY <1>5, <2>1, <2>3 DEF TypeOK
  <2>5. Owners'
    BY <1>1, <1>5, OwnersCpu DEF Idle
  <2>6. QED
    BY <2>1, <2>3, <2>4, <2>5
<1>6. CASE /\ gpu' = [at |-> "finish", command |-> command, range |-> {p}]
           /\ commands' = Tail(commands)
           /\ UNCHANGED <<trackingVars, cacheVars, copies, cpu, spoiled, halted>>
  <2> USE DEF trackingVars
  <2>1. CommandsWait' /\ commands' \in Seq(Command) /\ gpu' \in GpuState
    BY <1>1, <1>2, <1>6, TakenAndHeld
  <2>2. TypeOK'
    BY <1>6, <2>1 DEF TypeOK
  <2>3. WatchersExact'
    BY <1>6, WatchersStay
  <2>4. Owners'
    BY <1>1, <1>6, OwnersTaken
  <2>5. QED
    BY <2>1, <2>2, <2>3, <2>4
<1>7. QED
  BY <1>3, <1>4, <1>5, <1>6 DEF ReadMemory

\* An unmap command starts the publication of its page.
LEMMA UnmapMemoryWatch ==
    ASSUME WatchInv, UnmapMemory
    PROVE  WatchInv'
<1> USE DEF WatchInv, cacheVars, trackingVars
<1> DEFINE command == Head(commands)
<1>1. gpu = Idle /\ commands # <<>>
  BY DEF UnmapMemory
<1>2. command.page \in Pages
  BY <1>1, SeqTypes DEF Command
<1>3. CommandsWait' /\ commands' \in Seq(Command) /\ gpu' \in GpuState
  BY <1>1, <1>2, TakenAndHeld DEF UnmapMemory
<1>4. TypeOK'
  BY <1>3 DEF TypeOK, UnmapMemory
<1>5. WatchersExact'
  BY WatchersStay DEF UnmapMemory
<1>6. Owners'
  BY <1>1, OwnersTaken DEF UnmapMemory
<1>7. QED
  BY <1>3, <1>4, <1>5, <1>6

\* Publication copies the GPU-owned pages back and leaves the watchers to the next step.
LEMMA PublishWatch ==
    ASSUME WatchInv, Publish
    PROVE  WatchInv'
<1> USE DEF WatchInv, trackingVars
<1> DEFINE range == IF gpu.command.kind = "unmap" THEN UNION Overlapping(gpu.range) ELSE gpu.range
<1>1. gpu.at = "finish" /\ gpu \in GiveTask /\ Task = gpu /\ gpu.range = {gpu.command.page}
  BY GpuCases DEF Publish, Task, Owners, Given
<1>2. range \in SUBSET Pages
  BY <1>1 DEF GiveTask, TypeOK, Overlapping
<1>3. gpu' = [gpu EXCEPT !.at = "unmark", !.range = range] /\ gpuRanges' = gpuRanges \ range
      /\ copies' = CopyPages(copies, range \intersect gpuDirty \intersect gpuRanges, "buf", "mem")
  BY DEF Publish
<1>4. /\ gpu' \in GiveTask /\ gpu'.at = "unmark" /\ gpu'.range = range
      /\ gpu'.command = gpu.command /\ Task' = gpu'
  <2> HIDE DEF range
  <2>1. /\ gpu' \in GiveTask /\ gpu'.at = "unmark" /\ gpu'.range = range
        /\ gpu'.command = gpu.command
    BY <1>1, <1>2, <1>3 DEF GiveTask
  <2>2. QED
    BY <2>1 DEF Task
<1>5. copies' \in [Pages -> SUBSET Places]
  BY <1>3, CopyPagesType DEF TypeOK, Places
<1>6. range = IF gpu.command.kind = "unmap" THEN UNION Overlapping({gpu.command.page})
              ELSE {gpu.command.page}
  BY <1>1
<1> HIDE DEF range
<1>7. TypeOK'
  BY <1>3, <1>4, <1>5 DEF TypeOK, Publish, GpuState
<1>8. WatchersExact'
  BY WatchersStay DEF Publish
<1>9. Owners'
  <2>1. UNCHANGED <<cpuDirty, gpuDirty, buffers, retired>> /\ retired = <<>>
    BY DEF Publish
  <2>2. DirtyInRanges'
    BY <1>1, <1>3, <1>4, <2>1 DEF Owners, DirtyInRanges
  <2>3. DirtyHasOwner' /\ CopiedInRange' /\ UploadOwned' /\ Untracking'
    BY <1>4, <2>1 DEF Owners, DirtyHasOwner, CopiedInRange, UploadOwned, Untracking,
                      Registered, RetiredPages
  <2>4. Given'
    BY <1>4, <1>6, <2>1 DEF Given, Giving, Overlapping
  <2>5. QED
    BY <2>2, <2>3, <2>4 DEF Owners
<1>10. CommandsWait'
  BY <1>1, <1>4 DEF CommandsWait, Waiting, Publish
<1>11. QED
  BY <1>7, <1>8, <1>9, <1>10

\* The command that the GPU thread works on is answered.
LEMMA GivenAndAnswered ==
    ASSUME TypeOK, CommandsWait, gpu \in GiveTask, Reply(gpu.command), gpu' = Idle,
           commands' = commands
    PROVE  CommandsWait' /\ cpu' \in [Cpus -> {Running} \union CpuTask] /\ gpu' \in GpuState
<1>1. Task = gpu /\ gpu.at \in {"finish", "unmark", "mark", "erase"} /\ gpu.command \in Command
  BY DEF Task, GiveTask
<1>2. Waiting(gpu.command.cpu) /\ \A k \in DOMAIN commands : commands[k].cpu # gpu.command.cpu
  BY <1>1 DEF CommandsWait
<1>3. /\ cpu' \in [Cpus -> {Running} \union CpuTask]
      /\ \A d \in Cpus \ {gpu.command.cpu} : cpu'[d] = cpu[d]
  BY <1>1, <1>2, ReplyFacts
<1>4. \A k \in DOMAIN commands : commands[k].cpu \in Cpus
  BY SeqTypes DEF Command
<1>5. \A k \in DOMAIN commands : cpu'[commands[k].cpu].at \in {"wait", "unmap"}
  BY <1>2, <1>3, <1>4 DEF CommandsWait, Waiting
<1>6. Task'.at = "idle"
  BY DEF Task, Idle
<1>7. CommandsWait'
  BY <1>5, <1>6 DEF CommandsWait, Waiting
<1>8. QED
  BY <1>3, <1>7 DEF GpuState

\* The command stays with the GPU thread.
LEMMA GivenAndHeld ==
    ASSUME TypeOK, CommandsWait, gpu \in GiveTask, NEW at \in {"mark", "erase"},
           gpu' = [gpu EXCEPT !.at = at], UNCHANGED <<commands, cpu>>
    PROVE  /\ CommandsWait' /\ gpu' \in GpuState /\ Task' = gpu' /\ gpu'.at = at
           /\ gpu'.command = gpu.command /\ gpu'.range = gpu.range
<1>1. Task = gpu /\ gpu.at \in {"finish", "unmark", "mark", "erase"}
  BY DEF Task, GiveTask
<1>2. /\ gpu' \in GiveTask /\ gpu'.at = at /\ gpu'.command = gpu.command
      /\ gpu'.range = gpu.range
  BY DEF GiveTask
<1>3. Task' = gpu'
  BY <1>2 DEF Task
<1>4. CommandsWait'
  BY <1>1, <1>2, <1>3 DEF CommandsWait, Waiting
<1>5. QED
  BY <1>2, <1>3, <1>4 DEF GpuState

\* The pages that were given back lose their GPU ownership.
LEMMA UnmarkRangeWatch ==
    ASSUME WatchInv, UnmarkRange
    PROVE  WatchInv'
<1> USE DEF WatchInv, cacheVars
<1>1. gpu.at = "unmark" /\ gpu \in GiveTask /\ gpu.range \in SUBSET Pages
  BY GpuCases DEF UnmarkRange, GiveTask
<1>2. WatchersExact' /\ pages' \in PageState /\ gpuDirty' \in SUBSET Pages
  BY <1>1, UnmarkGpuExact DEF UnmarkRange
<1>3. gpuDirty' = gpuDirty \ gpu.range /\ UNCHANGED <<cpuDirty, gpuRanges, buffers, retired>>
  BY DEF UnmarkRange, UnmarkGpu
<1>4. DirtyHasOwner' /\ CopiedInRange'
  BY <1>3 DEF Owners, DirtyHasOwner, CopiedInRange, Registered, RetiredPages
<1>5. \A p \in gpuDirty' : p \in gpuRanges'
  BY <1>1, <1>3 DEF Owners, DirtyInRanges
<1>6. CASE gpu.command.kind = "read" /\ Reply(gpu.command) /\ gpu' = Idle
  <2>1. CommandsWait' /\ cpu' \in [Cpus -> {Running} \union CpuTask] /\ gpu' \in GpuState
    BY <1>1, <1>6, GivenAndAnswered DEF UnmarkRange
  <2>2. TypeOK'
    BY <1>2, <2>1 DEF TypeOK, UnmarkRange
  <2>3. gpu'.at = "idle" /\ Task' = gpu'
    BY <1>6 DEF Idle, Task
  <2>4. Owners'
    BY <1>4, <1>5, <2>3 DEF Owners, DirtyInRanges, UploadOwned, Given, Untracking, Giving
  <2>5. QED
    BY <1>2, <2>1, <2>2, <2>4
<1>7. CASE gpu.command.kind # "read" /\ gpu' = [gpu EXCEPT !.at = "mark"] /\ UNCHANGED cpu
  <2>1. /\ CommandsWait' /\ gpu' \in GpuState /\ Task' = gpu' /\ gpu'.at = "mark"
        /\ gpu'.command = gpu.command /\ gpu'.range = gpu.range
    BY <1>1, <1>7, GivenAndHeld DEF UnmarkRange
  <2>2. TypeOK'
    BY <1>2, <1>7, <2>1 DEF TypeOK, UnmarkRange
  <2>3. DirtyInRanges' /\ UploadOwned' /\ Untracking'
    BY <1>5, <2>1 DEF DirtyInRanges, UploadOwned, Untracking
  <2>4. Given'
    BY <1>1, <1>3, <1>7, <2>1 DEF Owners, Given, Giving, Overlapping
  <2>5. QED
    BY <1>2, <1>4, <2>1, <2>2, <2>3, <2>4 DEF Owners
<1>8. QED
  BY <1>6, <1>7 DEF UnmarkRange

\* The pages that were given back become the CPU's.
LEMMA MarkRangeWatch ==
    ASSUME WatchInv, MarkRange
    PROVE  WatchInv'
<1> USE DEF WatchInv, cacheVars
<1>1. gpu.at = "mark" /\ gpu \in GiveTask /\ gpu.range \in SUBSET Pages
      /\ gpu.range \intersect gpuDirty = {}
  BY GpuCases DEF MarkRange, GiveTask, Owners, Given
<1>2. WatchersExact' /\ pages' \in PageState /\ cpuDirty' \in SUBSET Pages
  BY <1>1, MarkCpuExact DEF MarkRange
<1>3. UNCHANGED <<gpuDirty, gpuRanges, buffers, retired>>
  BY DEF MarkRange
<1>4. DirtyHasOwner' /\ CopiedInRange'
  BY <1>3 DEF Owners, DirtyHasOwner, CopiedInRange, Registered, RetiredPages
<1>5. \A p \in gpuDirty' : p \in gpuRanges'
  BY <1>1, <1>3 DEF Owners, DirtyInRanges
<1>6. CASE Reply(gpu.command) /\ gpu' = Idle
  <2>1. CommandsWait' /\ cpu' \in [Cpus -> {Running} \union CpuTask] /\ gpu' \in GpuState
    BY <1>1, <1>6, GivenAndAnswered DEF MarkRange
  <2>2. TypeOK'
    BY <1>2, <2>1 DEF TypeOK, MarkRange
  <2>3. gpu'.at = "idle" /\ Task' = gpu'
    BY <1>6 DEF Idle, Task
  <2>4. Owners'
    BY <1>4, <1>5, <2>3 DEF Owners, DirtyInRanges, UploadOwned, Given, Untracking, Giving
  <2>5. QED
    BY <1>2, <2>1, <2>2, <2>4
<1>7. CASE gpu.command.kind = "unmap" /\ gpu' = [gpu EXCEPT !.at = "erase"] /\ UNCHANGED cpu
  <2>1. /\ CommandsWait' /\ gpu' \in GpuState /\ Task' = gpu' /\ gpu'.at = "erase"
        /\ gpu'.command = gpu.command /\ gpu'.range = gpu.range
    BY <1>1, <1>7, GivenAndHeld DEF MarkRange
  <2>2. TypeOK'
    BY <1>2, <1>7, <2>1 DEF TypeOK, MarkRange
  <2>3. DirtyInRanges' /\ UploadOwned' /\ Untracking'
    BY <1>5, <2>1 DEF DirtyInRanges, UploadOwned, Untracking
  <2>4. Given'
    BY <1>1, <1>3, <1>7, <2>1 DEF Owners, Given, Giving, Overlapping
  <2>5. QED
    BY <1>2, <1>4, <2>1, <2>2, <2>3, <2>4 DEF Owners
<1>8. QED
  BY <1>6, <1>7 DEF MarkRange

\* The unmapped page is not the GPU's, and neither is a page of the buffers over it.
LEMMA EraseWatch ==
    ASSUME WatchInv, Erase
    PROVE  WatchInv'
<1> USE DEF WatchInv
<1> DEFINE p == gpu.command.page
           gone == ImagesOn({p})
<1>1. gpu.at = "erase" /\ gpu \in GiveTask /\ p \in Pages /\ gpu.command \in Command
  BY GpuCases DEF Erase, GiveTask, Command
<1>2. /\ retired = <<>> /\ gpu.range = UNION Overlapping({p})
      /\ gpu.range \intersect gpuDirty = {}
  BY <1>1 DEF Owners, Given, Giving
<1>3. \A q \in gpuDirty : \E b \in buffers \ Overlapping({p}) : q \in b
  <2>1. RetiredPages = {}
    BY <1>2 DEF RetiredPages
  <2>2. \A q \in gpuDirty : \E b \in buffers : q \in b
    BY <2>1 DEF Owners, DirtyHasOwner, Registered
  <2>3. \A b \in Overlapping({p}) : b \intersect gpuDirty = {}
    BY <1>2
  <2>4. QED
    BY <2>2, <2>3
<1>4. p \notin gpuDirty
  BY <1>3 DEF Overlapping
<1>5. /\ images' \in [Images -> ImageState]
      /\ \A j \in gone : ~images'[j].tracked
      /\ \A j \in Images \ gone : images'[j].tracked = images[j].tracked
      /\ gone \in SUBSET Images
  BY DEF Erase, TypeOK, NewImage, ImageState, ImagesOn
<1>6. ExactFor(pages, cpuDirty, gpuDirty, images)
  BY WatchersExactFor
<1>7. ExactFor(CpuOwns(pages, {p}), cpuDirty \union {p}, gpuDirty, images)
  BY <1>1, <1>4, <1>6, CpuOwnsExact DEF CpuOwns
<1>8. ExactFor(UntrackImages(CpuOwns(pages, {p}), gone), cpuDirty \union {p}, gpuDirty, images')
  <2> HIDE DEF gone
  <2>1. QED
    BY <1>5, <1>7, UntrackExact
<1>9. ExactFor(pages', cpuDirty', gpuDirty', images')
  BY <1>8 DEF Erase
<1>10. WatchersExact' /\ pages' \in PageState
  BY <1>9, NextWatchersExact
<1>11. CommandsWait' /\ cpu' \in [Cpus -> {Running} \union CpuTask] /\ gpu' \in GpuState
  BY <1>1, GivenAndAnswered DEF Erase
<1>12. copies' \in [Pages -> SUBSET Places]
  BY DEF Erase, TypeOK, Places
<1>13. TypeOK'
  BY <1>1, <1>5, <1>10, <1>11, <1>12 DEF TypeOK, Erase
<1>14. Owners'
  <2>1. gpu'.at = "idle" /\ Task' = gpu' /\ UNCHANGED <<gpuDirty, gpuRanges, retired>>
    BY DEF Idle, Task, Erase
  <2>2. DirtyInRanges'
    BY <1>1, <2>1 DEF Owners, DirtyInRanges
  <2>3. DirtyHasOwner'
    BY <1>3, <2>1 DEF DirtyHasOwner, Registered, Erase
  <2>4. CopiedInRange' /\ UploadOwned' /\ Given' /\ Untracking'
    BY <2>1 DEF Owners, CopiedInRange, UploadOwned, Given, Untracking, Giving
  <2>5. QED
    BY <2>2, <2>3, <2>4 DEF Owners
<1>15. QED
  BY <1>10, <1>11, <1>13, <1>14

\* A dropped buffer's download is queued behind the others.
LEMMA CollectBufferWatch ==
    ASSUME WatchInv, NEW b \in buffers, CollectBuffer(b)
    PROVE  WatchInv'
<1> USE DEF WatchInv
<1> DEFINE dirty == b \intersect gpuDirty
<1>1. gpu = Idle /\ gpu' = Idle /\ Idle.at = "idle" /\ b \in SUBSET Pages
  BY DEF CollectBuffer, Idle, TypeOK
<1>2. copies' \in [Pages -> SUBSET Places] /\ buffers' \in SUBSET SUBSET Pages
  BY DEF CollectBuffer, TypeOK
<1>3. CommandsWait'
  BY CommandsStay DEF CollectBuffer
<1>4. CASE dirty = {} /\ MarkCpu(b) /\ UNCHANGED <<gpuDirty, retired>>
  <2>1. WatchersExact' /\ pages' \in PageState /\ cpuDirty' \in SUBSET Pages
    BY <1>1, <1>4, MarkCpuExact DEF CollectBuffer
  <2>2. TypeOK'
    BY <1>2, <1>4, <2>1 DEF TypeOK, CollectBuffer
  <2>3. DirtyHasOwner'
    BY <1>4 DEF Owners, DirtyHasOwner, Registered, RetiredPages, CollectBuffer
  <2>4. DirtyInRanges' /\ CopiedInRange' /\ UploadOwned' /\ Given' /\ Untracking'
    BY <1>1, <1>4 DEF Owners, DirtyInRanges, CopiedInRange, UploadOwned, Given, Untracking,
                      Giving, Task, CollectBuffer
  <2>5. QED
    BY <1>3, <2>1, <2>2, <2>3, <2>4 DEF Owners
<1>5. ASSUME NEW good \in SUBSET Pages,
             retired' = Append(retired, [range |-> b, copied |-> dirty \intersect gpuRanges,
                                         good |-> good]),
             UNCHANGED trackingVars
      PROVE  WatchInv'
  <2> USE DEF trackingVars
  <2> DEFINE download == [range |-> b, copied |-> dirty \intersect gpuRanges, good |-> good]
  <2>1. download \in Download /\ download.range = b /\ download.copied \subseteq b
    BY <1>1, <1>5 DEF Download, TypeOK
  <2>2. retired \in Seq(Download) /\ retired' = Append(retired, download)
    BY <1>5 DEF TypeOK
  <2> HIDE DEF download
  <2>3. /\ retired' \in Seq(Download) /\ Len(retired') = Len(retired) + 1
        /\ \A k \in 1 .. Len(retired) : retired'[k] = retired[k]
        /\ retired'[Len(retired) + 1] = download
    BY <2>1, <2>2, AppendProperties
  <2>4. /\ Len(retired) \in Nat /\ DOMAIN retired = 1 .. Len(retired)
        /\ DOMAIN retired' = 1 .. Len(retired) + 1
    BY <2>2, <2>3, LenProperties
  <2>5. /\ \A k \in DOMAIN retired' : k \in DOMAIN retired \/ k = Len(retired) + 1
        /\ Len(retired) + 1 \in DOMAIN retired'
        /\ DOMAIN retired \subseteq DOMAIN retired'
    BY <2>4
  <2>6. TypeOK'
    BY <1>2, <1>5, <2>3 DEF TypeOK, CollectBuffer
  <2>7. WatchersExact'
    BY <1>5, WatchersStay DEF CollectBuffer
  <2>8. RetiredPages \union b \subseteq RetiredPages'
    BY <2>1, <2>3, <2>4, <2>5 DEF RetiredPages
  <2>9. Registered \subseteq Registered' \union b
    BY DEF Registered, CollectBuffer
  <2>10. DirtyHasOwner'
    BY <1>5, <2>8, <2>9 DEF Owners, DirtyHasOwner
  <2>11. CopiedInRange'
    BY <2>1, <2>3, <2>4, <2>5 DEF Owners, CopiedInRange
  <2>12. DirtyInRanges' /\ UploadOwned' /\ Given' /\ Untracking'
    BY <1>1, <1>5 DEF Owners, DirtyInRanges, UploadOwned, Given, Untracking,
                      Giving, Task, CollectBuffer
  <2>13. QED
    BY <1>3, <2>6, <2>7, <2>10, <2>11, <2>12 DEF Owners
<1>6. {p \in dirty \intersect gpuRanges : "buf" \in copies[p]} \in SUBSET Pages
  BY DEF TypeOK
<1>7. QED
  BY <1>4, <1>5, <1>6 DEF CollectBuffer

\* A retired download takes the GPU side of its range away, inside a step that polls.
LEMMA FinishRetiredWatch ==
    ASSUME WatchInv, FinishRetired
    PROVE  WatchInv'
<1> USE DEF WatchInv
<1> DEFINE download == Head(retired)
<1>1. gpu.at \in {"idle", "finish", "stage"} /\ retired # <<>>
  BY DEF FinishRetired
<1>2. download \in Download /\ download = retired[1] /\ 1 \in DOMAIN retired
      /\ download.range \in SUBSET Pages
  BY <1>1, SeqTypes DEF Download
<1>3. CASE Halt("garbage collection retained GPU ownership")
  BY <1>3, StayWatch DEF Halt
<1>4. CASE ~Halt("garbage collection retained GPU ownership")
  <2>1. /\ copies' = [p \in Pages |-> CASE p \in download.good -> copies[p] \union {"mem"}
                                        [] p \in download.copied \ download.good ->
                                               copies[p] \ {"mem"}
                                        [] OTHER -> copies[p]]
        /\ gpuRanges' = gpuRanges \ download.copied
        /\ UnmarkGpu(download.range)
        /\ gpu' = [at |-> "untrack", range |-> download.range, back |-> gpu]
        /\ UNCHANGED <<cpuDirty, buffers, retired, images, cpu, commands, spoiled, halted>>
    BY <1>4 DEF FinishRetired
  <2> HIDE DEF download
  <2>2. WatchersExact' /\ pages' \in PageState /\ gpuDirty' \in SUBSET Pages
    BY <1>2, <2>1, UnmarkGpuExact
  <2>3. gpu \in Outer
    BY <1>1, GpuCases DEF Outer
  <2>4. /\ gpu' \in UntrackTask /\ gpu'.at = "untrack" /\ gpu'.range = download.range
        /\ gpu'.back = gpu
    BY <1>2, <2>1, <2>3 DEF UntrackTask
  <2>5. Task = gpu /\ Task' = gpu
    BY <1>1, <2>4 DEF Task
  <2>6. copies' \in [Pages -> SUBSET Places]
    BY <2>1 DEF TypeOK, Places
  <2>7. TypeOK'
    BY <2>1, <2>2, <2>4, <2>6 DEF TypeOK, GpuState
  <2>8. gpuDirty' = gpuDirty \ download.range
    BY <2>1 DEF UnmarkGpu
  <2>9. DirtyInRanges'
    BY <1>1, <1>2, <2>1, <2>8 DEF Owners, DirtyInRanges, CopiedInRange
  <2>10. DirtyHasOwner' /\ CopiedInRange' /\ UploadOwned'
    BY <2>1, <2>4, <2>8 DEF Owners, DirtyHasOwner, CopiedInRange, UploadOwned, Registered,
                            RetiredPages
  <2>11. Given'
    BY <2>4, <2>5 DEF Owners, Given, Giving
  <2>12. Untracking'
    BY <1>1, <1>2, <2>1, <2>4, <2>8 DEF Untracking
  <2>13. CommandsWait'
    BY <2>1, <2>5 DEF CommandsWait, Waiting
  <2>14. QED
    BY <2>2, <2>7, <2>9, <2>10, <2>11, <2>12, <2>13 DEF Owners
<1>5. QED
  BY <1>3, <1>4

\* The range of a retired download becomes the CPU's, and the outer step goes on.
LEMMA UntrackRetiredWatch ==
    ASSUME WatchInv, UntrackRetired
    PROVE  WatchInv'
<1> USE DEF WatchInv
<1>1. gpu.at = "untrack" /\ gpu \in UntrackTask /\ gpu.range \in SUBSET Pages
      /\ gpu.back \in Outer /\ gpu' = gpu.back
  BY GpuCases DEF UntrackRetired, UntrackTask
<1>2. retired # <<>> /\ gpu.range = retired[1].range /\ gpu.range \intersect gpuDirty = {}
  BY <1>1 DEF Owners, Untracking
<1>3. WatchersExact' /\ pages' \in PageState /\ cpuDirty' \in SUBSET Pages
  BY <1>1, <1>2, MarkCpuExact DEF UntrackRetired
<1>4. retired \in Seq(Download) /\ retired' = Tail(retired)
  BY DEF UntrackRetired, TypeOK
<1>5. /\ retired' \in Seq(Download) /\ Len(retired') = Len(retired) - 1
      /\ \A k \in 1 .. Len(retired') : retired'[k] = retired[k + 1]
  BY <1>2, <1>4, HeadTailProperties
<1>6. /\ Len(retired) \in Nat /\ DOMAIN retired = 1 .. Len(retired)
      /\ DOMAIN retired' = 1 .. Len(retired) - 1
  BY <1>4, <1>5, LenProperties
<1>7. gpu'.at \in {"idle", "finish", "stage"} /\ gpu' \in GpuState
  BY <1>1 DEF Outer, GpuState, Idle, GiveTask, SourceTask
<1>8. Task = gpu.back /\ Task' = gpu.back
  BY <1>1, <1>7 DEF Task
<1>9. TypeOK'
  BY <1>3, <1>5, <1>7 DEF TypeOK, UntrackRetired
<1>10. UNCHANGED <<gpuDirty, gpuRanges, buffers, cpu, commands>>
  BY DEF UntrackRetired
<1>11. RetiredPages \subseteq RetiredPages' \union gpu.range
  <2>1. ASSUME NEW k \in DOMAIN retired
        PROVE  retired[k].range \subseteq RetiredPages' \union gpu.range
    <3>1. CASE k = 1
      BY <1>2, <3>1
    <3>2. CASE k # 1
      <4>1. k - 1 \in DOMAIN retired' /\ retired'[k - 1] = retired[k]
        BY <1>5, <1>6, <3>2
      <4>2. QED
        BY <4>1 DEF RetiredPages
    <3>3. QED
      BY <3>1, <3>2
  <2>2. QED
    BY <2>1 DEF RetiredPages
<1>12. DirtyInRanges' /\ DirtyHasOwner'
  BY <1>1, <1>2, <1>10, <1>11 DEF Owners, DirtyInRanges, DirtyHasOwner, Registered
<1>13. CopiedInRange'
  <2>1. \A k \in DOMAIN retired' : k + 1 \in DOMAIN retired /\ retired'[k] = retired[k + 1]
    BY <1>5, <1>6
  <2>2. QED
    BY <2>1 DEF Owners, CopiedInRange
<1>14. UploadOwned' /\ Given' /\ Untracking'
  BY <1>7, <1>8 DEF Owners, UploadOwned, Given, Untracking, Giving
<1>15. CommandsWait'
  BY <1>8, <1>10 DEF CommandsWait, Waiting
<1>16. QED
  BY <1>3, <1>9, <1>12, <1>13, <1>14, <1>15 DEF Owners

\* Steps that leave the GPU's ranges alone and take no buffer away.
LEMMA OwnersImage ==
    ASSUME Owners, gpu.at \notin {"unmark", "untrack"},
           gpu'.at \in {"idle", "image", "stage", "staged"},
           UNCHANGED <<gpuDirty, gpuRanges, retired>>, Registered \subseteq Registered'
    PROVE  Owners'
<1>1. Task' = gpu'
  BY DEF Task
<1>2. QED
  BY <1>1 DEF Owners, DirtyInRanges, DirtyHasOwner, CopiedInRange, UploadOwned, Given,
              Untracking, RetiredPages, Giving

\* The steps of a refresh answer no command.
LEMMA CommandsImage ==
    ASSUME CommandsWait, gpu'.at \in {"idle", "image", "stage", "staged"},
           UNCHANGED <<cpu, commands>>
    PROVE  CommandsWait'
<1>1. Task' = gpu'
  BY DEF Task
<1>2. QED
  BY <1>1 DEF CommandsWait, Waiting

\* A refresh tracks the image before it looks for its source.
LEMMA RefreshImageWatch ==
    ASSUME WatchInv, NEW i \in Images, RefreshImage(i)
    PROVE  WatchInv'
<1> USE DEF WatchInv
<1>1. gpu = Idle /\ TrackImage(i)
  BY DEF RefreshImage
<1>2. gpu.at = "idle" /\ gpu'.at \in {"idle", "image"} /\ gpu' \in GpuState
  <2>1. [at |-> "image", image |-> i] \in SourceTask
    BY DEF SourceTask
  <2>2. QED
    BY <1>1, <2>1 DEF RefreshImage, Idle, GpuState
<1>3. /\ images' \in [Images -> ImageState] /\ images'[i].tracked
      /\ \A j \in Images \ {i} : images'[j] = images[j]
  <2>1. images \in [Images -> ImageState] /\ images[i] \in ImageState
    BY DEF TypeOK
  <2>2. images' = [images EXCEPT ![i] = [images[i] EXCEPT !.tracked = TRUE]]
    BY <1>1 DEF TrackImage
  <2>3. [images[i] EXCEPT !.tracked = TRUE] \in ImageState
        /\ [images[i] EXCEPT !.tracked = TRUE].tracked
    BY <2>1 DEF ImageState
  <2>4. QED
    BY <2>1, <2>2, <2>3
<1>4. ExactFor(pages, cpuDirty, gpuDirty, images)
  BY WatchersExactFor
<1>5. ExactFor(pages', cpuDirty, gpuDirty, images')
  <2>1. CASE images[i].tracked
    <3>1. pages' = pages
      BY <1>1, <2>1 DEF TrackImage
    <3>2. \A j \in Images : images'[j].tracked = images[j].tracked
      <4>1. images[i].tracked \in BOOLEAN /\ images'[i].tracked \in BOOLEAN
        BY <1>3 DEF TypeOK, ImageState
      <4>2. QED
        BY <1>3, <2>1, <4>1
    <3>3. QED
      BY <1>4, <3>1, <3>2, SameTracking
  <2>2. CASE ~images[i].tracked
    <3>1. pages' = UpdateWatchers(pages, ImagePages[i], TRUE, FALSE)
      BY <1>1, <2>2 DEF TrackImage
    <3>2. \A j \in Images \ {i} : images'[j].tracked = images[j].tracked
      BY <1>3
    <3>3. QED
      BY <1>3, <1>4, <2>2, <3>1, <3>2, TrackExact
  <2>3. QED
    BY <2>1, <2>2
<1>6. ExactFor(pages', cpuDirty', gpuDirty', images')
  BY <1>5 DEF RefreshImage
<1>7. WatchersExact' /\ pages' \in PageState
  BY <1>6, NextWatchersExact
<1>8. TypeOK'
  BY <1>2, <1>3, <1>7 DEF TypeOK, RefreshImage
<1>9. Owners'
  <2>1. Registered' = Registered
    BY DEF RefreshImage, Registered
  <2>2. QED
    BY <1>2, <2>1, OwnersImage DEF RefreshImage
<1>10. CommandsWait'
  BY <1>2, CommandsImage DEF RefreshImage
<1>11. QED
  BY <1>7, <1>8, <1>9, <1>10

\* The image takes its pages; nothing of it changes but what it has missed and its two flags.
LEMMA ImageCleanFacts ==
    ASSUME TypeOK, NEW i \in Images,
           images' = [images EXCEPT ![i] = Refreshed(@)]
    PROVE  /\ images' \in [Images -> ImageState]
           /\ \A j \in Images : images'[j].tracked = images[j].tracked
           /\ \A j \in Images \ {i} : images'[j] = images[j]
<1>1. images \in [Images -> ImageState] /\ \A j \in Images : images[j] \in ImageState
  BY DEF TypeOK
<1> DEFINE new == Refreshed(images[i])
<1>2. new \in ImageState /\ new.tracked = images[i].tracked
  BY <1>1 DEF ImageState, Refreshed
<1>3. images' = [images EXCEPT ![i] = new]
  BY <1>1
<1> HIDE DEF new
<1>4. QED
  BY <1>1, <1>2, <1>3

\* A step that tracks and untracks nothing keeps the watchers exact.
LEMMA SameTrackingWatch ==
    ASSUME TypeOK, WatchersExact, UNCHANGED trackingVars,
           \A j \in Images : images'[j].tracked = images[j].tracked
    PROVE  WatchersExact'
<1>1. ExactFor(pages, cpuDirty, gpuDirty, images)
  BY WatchersExactFor
<1>2. ExactFor(pages, cpuDirty, gpuDirty, images')
  BY <1>1, SameTracking
<1>3. ExactFor(pages', cpuDirty', gpuDirty', images')
  BY <1>2 DEF trackingVars
<1>4. QED
  BY <1>3, NextWatchersExact

\* Choosing the source of an image changes its flags and no watcher.
LEMMA ImageSourceWatch ==
    ASSUME WatchInv, ImageSource
    PROVE  WatchInv'
<1> USE DEF WatchInv
<1> DEFINE i == gpu.image
           range == ImagePages[i]
           dirty == range \intersect gpuRanges # {}
<1>1. gpu.at = "image" /\ gpu \in SourceTask /\ i \in Images /\ range \in SUBSET Pages
  BY GpuCases, CoherenceAssumption DEF ImageSource, SourceTask
<1>2. CASE Halt("GPU-dirty image source has no native buffer")
  BY <1>2, StayWatch DEF Halt
<1>3. CASE /\ IF dirty THEN GetOrCreateBuffer(range) ELSE UNCHANGED <<buffers, spoiled>>
           /\ \/ ImageTakes(i, copies, "buf")
              \/ gpu' = [gpu EXCEPT !.at = "stage"] /\ UNCHANGED <<copies, images>>
           /\ UNCHANGED <<trackingVars, gpuRanges, retired, cpu, commands, halted>>
  <2>1. /\ buffers' \in SUBSET SUBSET Pages /\ spoiled' \in SUBSET Pages
        /\ Registered \subseteq Registered'
    <3>1. CASE dirty
      BY <1>1, <1>3, <3>1, GetOrCreateBufferFacts
    <3>2. CASE ~dirty
      BY <1>3, <3>2 DEF TypeOK, Registered
    <3>3. QED
      BY <3>1, <3>2
  <2>2. /\ gpu' \in GpuState /\ gpu'.at \in {"idle", "stage"}
        /\ copies' \in [Pages -> SUBSET Places] /\ images' \in [Images -> ImageState]
        /\ \A j \in Images : images'[j].tracked = images[j].tracked
    <3>1. CASE ImageTakes(i, copies, "buf")
      <4>1. copies' \in [Pages -> SUBSET Places]
        <5>1. i \in Places
          BY <1>1 DEF Places
        <5>2. QED
          BY <3>1, <5>1, CopyPagesType DEF ImageTakes, TypeOK
      <4>2. gpu' \in GpuState /\ gpu'.at = "idle"
        BY <3>1 DEF ImageTakes, GpuState, Idle
      <4>3. QED
        BY <1>1, <3>1, <4>1, <4>2, ImageCleanFacts DEF ImageTakes
    <3>2. CASE gpu' = [gpu EXCEPT !.at = "stage"] /\ UNCHANGED <<copies, images>>
      <4>1. gpu' \in SourceTask /\ gpu'.at = "stage"
        BY <1>1, <3>2 DEF SourceTask
      <4>2. QED
        BY <3>2, <4>1 DEF GpuState, TypeOK
    <3>3. QED
      BY <1>3, <3>1, <3>2
  <2>3. TypeOK'
    BY <1>3, <2>1, <2>2 DEF TypeOK, trackingVars
  <2>4. WatchersExact'
    BY <1>3, <2>2, SameTrackingWatch
  <2>5. Owners'
    BY <1>1, <1>3, <2>1, <2>2, OwnersImage DEF trackingVars
  <2>6. CommandsWait'
    BY <1>3, <2>2, CommandsImage
  <2>7. QED
    BY <2>3, <2>4, <2>5, <2>6
<1>4. QED
  BY <1>2, <1>3 DEF ImageSource

\* Copying guest memory to a staging buffer changes no ownership and no watcher.
LEMMA StageImageWatch ==
    ASSUME WatchInv, StageImage
    PROVE  WatchInv'
<1> USE DEF WatchInv, trackingVars, cacheVars
<1>1. gpu.at = "stage" /\ gpu \in SourceTask /\ gpu.image \in Images
  BY GpuCases DEF StageImage, SourceTask
<1>2. ImagePages[gpu.image] \in SUBSET Pages
  BY <1>1, CoherenceAssumption
<1>3. gpu' \in StagedTask /\ gpu'.at = "staged"
  BY <1>1, <1>2 DEF StageImage, StagedTask
<1>4. TypeOK'
  BY <1>3 DEF TypeOK, StageImage, GpuState
<1>5. WatchersExact'
  BY WatchersStay DEF StageImage
<1>6. Owners'
  <2>1. Registered' = Registered
    BY DEF StageImage, Registered
  <2>2. QED
    BY <1>1, <1>3, <2>1, OwnersImage DEF StageImage
<1>7. CommandsWait'
  BY <1>3, CommandsImage DEF StageImage
<1>8. QED
  BY <1>4, <1>5, <1>6, <1>7

\* Pages staged into a place: the current ones reach it, the others leave it old.
StagedPages(c, where, good, to) ==
    [p \in Pages |-> CASE p \notin where -> c[p]
                       [] p \in where \intersect good -> c[p] \union {to}
                       [] OTHER -> c[p] \ {to}]

\* A staged copy lands in a place.
LEMMA StagedPagesType ==
    ASSUME NEW c \in [Pages -> SUBSET Places], NEW where, NEW good, NEW to \in Places
    PROVE  StagedPages(c, where, good, to) \in [Pages -> SUBSET Places]
BY DEF StagedPages

\* The staged pages that reach a buffer lose their CPU side.
LEMMA UploadStagedWatch ==
    ASSUME WatchInv, UploadStaged
    PROVE  WatchInv'
<1> USE DEF WatchInv
<1> DEFINE i == gpu.image
           range == ImagePages[i]
<1>1. gpu.at = "staged" /\ gpu \in StagedTask /\ i \in Images /\ range \in SUBSET Pages
      /\ i \in Places /\ "buf" \in Places
  BY GpuCases, CoherenceAssumption DEF UploadStaged, StagedTask, Places
<1>2. gpu' = Idle /\ gpu'.at = "idle" /\ gpu' \in GpuState
  BY DEF UploadStaged, ImageTakes, Idle, GpuState
<1>3. images' = [images EXCEPT ![i] = Refreshed(@)]
  BY DEF UploadStaged, ImageTakes
<1>4. /\ images' \in [Images -> ImageState]
      /\ \A j \in Images : images'[j].tracked = images[j].tracked
  BY <1>1, <1>3, ImageCleanFacts
<1>5. copies \in [Pages -> SUBSET Places]
  BY DEF TypeOK
<1>6. /\ copies' \in [Pages -> SUBSET Places]
      /\ WatchersExact' /\ pages' \in PageState /\ cpuDirty' \in SUBSET Pages
      /\ gpuDirty' = gpuDirty
  <2>1. CASE /\ copies' = StagedPages(copies, range, gpu.good, i)
             /\ UNCHANGED trackingVars
    <3>1. copies' \in [Pages -> SUBSET Places]
      BY <1>1, <1>5, <2>1, StagedPagesType
    <3>2. WatchersExact'
      BY <1>4, <2>1, SameTrackingWatch
    <3>3. QED
      BY <2>1, <3>1, <3>2 DEF TypeOK, trackingVars
  <2>2. CASE /\ ClearCpu(range)
             /\ copies' = CopyPages(StagedPages(copies, range \intersect cpuDirty, gpu.good, "buf"),
                                    range, "buf", i)
             /\ UNCHANGED gpuDirty
    <3>1. StagedPages(copies, range \intersect cpuDirty, gpu.good, "buf") \in [Pages -> SUBSET Places]
      BY <1>1, <1>5, StagedPagesType
    <3>2. copies' \in [Pages -> SUBSET Places]
      BY <1>1, <2>2, <3>1, CopyPagesType
    <3>3. QED
      BY <1>1, <1>4, <2>2, <3>2, ClearCpuExact
  <2>3. QED
    BY <2>1, <2>2 DEF UploadStaged, ImageTakes, StagedPages
<1>7. TypeOK'
  BY <1>2, <1>4, <1>6 DEF TypeOK, UploadStaged
<1>8. Owners'
  <2>1. Registered' = Registered
    BY DEF UploadStaged, Registered
  <2>2. QED
    BY <1>1, <1>2, <1>6, <2>1, OwnersImage DEF UploadStaged
<1>9. CommandsWait'
  BY <1>2, CommandsImage DEF UploadStaged
<1>10. QED
  BY <1>6, <1>7, <1>8, <1>9

\* A deleted image leaves no watcher behind.
LEMMA DeleteImageWatch ==
    ASSUME WatchInv, NEW i \in Images, DeleteImage(i)
    PROVE  WatchInv'
<1> USE DEF WatchInv
<1>1. /\ images' \in [Images -> ImageState] /\ \A j \in {i} : ~images'[j].tracked
      /\ \A j \in Images \ {i} : images'[j].tracked = images[j].tracked
  BY DEF DeleteImage, TypeOK, NewImage, ImageState
<1>2. ExactFor(pages, cpuDirty, gpuDirty, images)
  BY WatchersExactFor
<1>3. ExactFor(UntrackImages(pages, {i}), cpuDirty, gpuDirty, images')
  <2>1. {i} \in SUBSET Images
    OBVIOUS
  <2>2. QED
    BY <1>1, <1>2, <2>1, UntrackExact
<1>4. ExactFor(pages', cpuDirty', gpuDirty', images')
  BY <1>3 DEF DeleteImage
<1>5. WatchersExact' /\ pages' \in PageState
  BY <1>4, NextWatchersExact
<1>6. TypeOK'
  BY <1>1, <1>5 DEF TypeOK, DeleteImage
<1>7. Owners' /\ CommandsWait'
  BY OwnersStay, CommandsStay DEF DeleteImage
<1>8. QED
  BY <1>5, <1>6, <1>7

\* Every step keeps the invariant.
LEMMA WatchStep ==
    ASSUME WatchInv, [CoherenceNext]_coherenceVars
    PROVE  WatchInv'
<1>1. CASE UNCHANGED coherenceVars
  BY <1>1, StayWatch DEF coherenceVars
<1>2. CASE CoherenceNext
  <2>1. ASSUME NEW c \in Cpus, NEW p \in Pages, CpuWrite(c, p) PROVE WatchInv'
    BY <2>1, CpuWriteWatch
  <2>2. ASSUME NEW c \in Cpus, NEW p \in Pages, CpuInvalidate(c, p) PROVE WatchInv'
    <3>1. TRUE \in BOOLEAN
      OBVIOUS
    <3>2. QED
      BY <2>2, <3>1, CpuFaultWatch
  <2>3. ASSUME NEW c \in Cpus, NEW p \in Pages, CpuUnmap(c, p) PROVE WatchInv'
    BY <2>3, CpuUnmapWatch
  <2>4. ASSUME NEW c \in Cpus, NEW p \in Pages, NEW write \in BOOLEAN, CpuFault(c, p, write)
        PROVE  WatchInv'
    BY <2>4, CpuFaultWatch
  <2>5. ASSUME NEW c \in Cpus, HandleFault(c) \/ InvalidateBuffers(c) \/ InvalidateTextures(c)
        PROVE  WatchInv'
    BY <2>5, HandleFaultWatch, InvalidateBuffersWatch, InvalidateTexturesWatch
  <2>6. ASSUME NEW range \in Ranges, NEW written \in BOOLEAN, NEW formatted \in BOOLEAN,
               ObtainBuffer(range, written, formatted)
        PROVE  WatchInv'
    <3>1. range \in SUBSET Pages
      BY DEF Ranges
    <3>2. QED
      BY <2>6, <3>1, ObtainBufferWatch
  <2>7. ASSUME NEW p \in Pages, WriteHostMemory(p) PROVE WatchInv'
    BY <2>7, WriteHostMemoryWatch
  <2>8. CASE Upload \/ ReadMemory \/ UnmapMemory \/ Publish \/ UnmarkRange \/ MarkRange \/ Erase
    BY <2>8, UploadWatch, ReadMemoryWatch, UnmapMemoryWatch, PublishWatch, UnmarkRangeWatch,
       MarkRangeWatch, EraseWatch
  <2>9. ASSUME NEW b \in buffers, CollectBuffer(b) PROVE WatchInv'
    BY <2>9, CollectBufferWatch
  <2>10. CASE FinishRetired \/ UntrackRetired \/ ImageSource \/ StageImage \/ UploadStaged
    BY <2>10, FinishRetiredWatch, UntrackRetiredWatch, ImageSourceWatch, StageImageWatch,
       UploadStagedWatch
  <2>11. ASSUME NEW i \in Images, RefreshImage(i) \/ DeleteImage(i) PROVE WatchInv'
    BY <2>11, RefreshImageWatch, DeleteImageWatch
  <2>12. CASE ReenterUpload
    BY <2>12, StayWatch DEF ReenterUpload, Halt
  <2>13. TRUE \in BOOLEAN /\ FALSE \in BOOLEAN
    OBVIOUS
  <2>14. QED
    BY <1>2, <2>1, <2>2, <2>3, <2>4, <2>5, <2>6, <2>7, <2>8, <2>9, <2>10, <2>11, <2>12, <2>13
       DEF CoherenceNext
<1>3. QED
  BY <1>1, <1>2

\* The watchers of every page are exactly its owners and the images that track it, the host
\* protects it by them, and no page is owned twice: UpdateRegionWatchers keeps this over any
\* number of pages, images and threads, and in every order of their steps.
THEOREM WatchersExactHolds == CoherenceSpec => []WatchersExact
<1>1. CoherenceInit => WatchInv
  BY WatchInit
<1>2. WatchInv /\ [CoherenceNext]_coherenceVars => WatchInv'
  BY WatchStep
<1>3. WatchInv => WatchersExact
  BY DEF WatchInv
<1>4. QED
  BY <1>1, <1>2, <1>3, PTL DEF CoherenceSpec

-----------------------------------------------------------------------------
(***************************************************************************)
(* The inductive invariant of Coherent.                                    *)
(***************************************************************************)

\* Contents: guest memory is current where the GPU does not own the page, a buffer where the
\* CPU has not written since the upload, a clean image on the pages it has not missed.
MemCurrent == \A p \in Pages \ spoiled : p \notin gpuDirty => "mem" \in copies[p]

BufferCurrent ==
    \A p \in Registered : p \in cpuDirty \union InUpload \union spoiled \/ "buf" \in copies[p]

ImageCurrent ==
    \A i \in Images : Clean(images[i]) =>
        \A p \in ImagePages[i] \ spoiled : p \in images[i].missed \/ i \in copies[p]

Contents == MemCurrent /\ BufferCurrent /\ ImageCurrent

\* An image that watches no page is dirty, and the one the GPU thread works on watches.
TrackedOrDirty == \A i \in Images : images[i].tracked \/ images[i].cpuDirty

ImageTask == Task.at \in {"image", "stage", "staged"} => images[Task.image].tracked

\* An image without a buffer for all of its pages has no page that the GPU wrote; the pages
\* the GPU does not own were staged from current memory.
StageOwned ==
    Task.at \in {"stage", "staged"} =>
        Owned(ImagePages[Task.image]) \/ ImagePages[Task.image] \intersect gpuRanges = {}

Staged ==
    gpu.at = "staged" =>
        \A p \in ImagePages[gpu.image] \ (spoiled \union gpuDirty) : p \in gpu.good

\* An image that stays clean at a write of the GPU misses the pages of it.
UploadImages ==
    gpu.at = "upload" /\ gpu.written =>
        \A i \in Images : Clean(images[i]) => ImagePages[i] \intersect gpu.range \subseteq images[i].missed

\* Pages are given to the CPU after they were read back, and erased after they were given.
GivenCurrent ==
    /\ gpu.at = "unmark" => \A p \in gpu.range \ spoiled : "mem" \in copies[p]
    /\ gpu.at = "erase" => gpu.range \subseteq cpuDirty

Work == TrackedOrDirty /\ ImageTask /\ StageOwned /\ Staged /\ UploadImages /\ GivenCurrent

\* Buffers do not overlap; a page without a buffer is the CPU's or waits for its download; a
\* page of a pending download has neither a buffer nor another download, and the download
\* brings every page that the GPU owns its last value.
Disjoint == \A a, b \in buffers : a # b => a \intersect b = {}

UnownedIsCpu == Pages \ (Registered \union RetiredPages) \subseteq cpuDirty

RetiredSpoils ==
    /\ Registered \intersect RetiredPages \subseteq spoiled
    /\ \A k, l \in DOMAIN retired :
          k # l => retired[k].range \intersect retired[l].range \subseteq spoiled

RetiredGood ==
    \A k \in DOMAIN retired : (gpu.at = "untrack" => k # 1) =>
        \A p \in retired[k].range \ spoiled :
            /\ p \in retired[k].copied <=> p \in gpuDirty
            /\ p \in retired[k].copied => p \in retired[k].good

Pending == Disjoint /\ UnownedIsCpu /\ RetiredSpoils /\ RetiredGood

CoherenceInv == Contents /\ Work /\ Pending

\* A page is closed to reads exactly while the GPU owns it, and open to writes only while the
\* CPU owns it and no image watches it.
LEMMA ProtectionFacts ==
    ASSUME WatchInv, NEW p \in Pages
    PROVE  /\ pages.prot[p] = "none" <=> p \in gpuDirty
           /\ pages.prot[p] = "rw" => p \in cpuDirty /\ p \notin gpuDirty
           /\ pages.prot[p] = "rw" => \A i \in Images : p \in ImagePages[i] => ~images[i].tracked
<1> DEFINE w == {i \in ImagesOn({p}) : images[i].tracked}
<1>1. /\ pages.access[p] = IF p \in gpuDirty THEN 1 ELSE 0
      /\ pages.write[p] = (IF p \in cpuDirty THEN 0 ELSE 1) + Cardinality(w)
      /\ pages.prot[p] = Perms(pages, p) /\ cpuDirty \intersect gpuDirty = {}
  BY DEF WatchInv, WatchersExact
<1>2. IsFiniteSet(w) /\ Cardinality(w) \in Nat
  BY WatchingFinite DEF Watching
<1>3. pages.prot[p] = "none" <=> p \in gpuDirty
  BY <1>1 DEF Perms
<1> HIDE DEF w
<1>4. ASSUME pages.prot[p] = "rw"
      PROVE  p \in cpuDirty /\ w = {}
  <2>1. pages.write[p] = 0
    BY <1>1, <1>4 DEF Perms
  <2>2. p \in cpuDirty /\ Cardinality(w) = 0
    BY <1>1, <1>2, <2>1
  <2>3. QED
    BY <1>2, <2>2, FS_EmptySet
<1>5. QED
  BY <1>1, <1>3, <1>4 DEF w, ImagesOn

\* The contents are coherent under the invariant.
LEMMA CoherenceInvIsCoherent ==
    ASSUME WatchInv, CoherenceInv
    PROVE  Coherent
<1>1. \A p \in Pages : pages.prot[p] # "none" => p \notin gpuDirty
  BY ProtectionFacts
<1>2. \A p \in Pages : \A i \in ImagesOn({p}) : i \in Images /\ p \in ImagePages[i]
  BY DEF ImagesOn
<1>3. QED
  BY <1>1, <1>2 DEF CoherenceInv, Contents, MemCurrent, BufferCurrent, ImageCurrent, Clean, Coherent

\* The coherence invariant holds at the start.
LEMMA CoherenceStart ==
    ASSUME CoherenceInit
    PROVE  CoherenceInv
<1> USE DEF CoherenceInit, TrackingInit
<1>1. RetiredPages = {} /\ Registered = {} /\ gpu.at = "idle" /\ Task = gpu
  BY DEF RetiredPages, Registered, Idle, Task
<1>2. Contents
  BY <1>1 DEF Contents, MemCurrent, BufferCurrent, ImageCurrent, Clean, NewImage
<1>3. Work
  BY <1>1 DEF Work, TrackedOrDirty, ImageTask, StageOwned, Staged, UploadImages, GivenCurrent,
              NewImage
<1>4. Pending
  BY <1>1 DEF Pending, Disjoint, UnownedIsCpu, RetiredSpoils, RetiredGood
<1>5. QED
  BY <1>2, <1>3, <1>4 DEF CoherenceInv

\* Steps of guest threads and of the command queue touch none of it.
LEMMA StayCoherent ==
    ASSUME CoherenceInv,
           UNCHANGED <<cpuDirty, gpuDirty, buffers, gpuRanges, retired, images, copies, gpu, spoiled>>
    PROVE  CoherenceInv'
<1>1. Contents'
  BY DEF CoherenceInv, Contents, MemCurrent, BufferCurrent, ImageCurrent, Registered, InUpload
<1>2. Work'
  BY DEF CoherenceInv, Work, TrackedOrDirty, ImageTask, StageOwned, Staged, UploadImages,
         GivenCurrent, Task, Owned, ImagesOn
<1>3. Pending'
  BY DEF CoherenceInv, Pending, Disjoint, UnownedIsCpu, RetiredSpoils, RetiredGood, Registered,
         RetiredPages
<1>4. QED
  BY <1>1, <1>2, <1>3 DEF CoherenceInv

\* The CPU may own more pages: less is promised of the buffers.
LEMMA MarkCpuCoherent ==
    ASSUME CoherenceInv, cpuDirty \subseteq cpuDirty',
           UNCHANGED <<gpuDirty, buffers, gpuRanges, retired, images, copies, gpu, spoiled>>
    PROVE  CoherenceInv'
<1>1. Contents'
  BY DEF CoherenceInv, Contents, MemCurrent, BufferCurrent, ImageCurrent, Registered, InUpload
<1>2. Work'
  BY DEF CoherenceInv, Work, TrackedOrDirty, ImageTask, StageOwned, Staged, UploadImages,
         GivenCurrent, Task, Owned, ImagesOn
<1>3. Pending'
  BY DEF CoherenceInv, Pending, Disjoint, UnownedIsCpu, RetiredSpoils, RetiredGood, Registered,
         RetiredPages
<1>4. QED
  BY <1>1, <1>2, <1>3 DEF CoherenceInv

\* What the GPU thread does next asks for nothing but the flags of the images.
LEMMA WorkRests ==
    ASSUME TrackedOrDirty', Task'.at \notin {"image", "stage", "staged"},
           gpu'.at \notin {"upload", "unmark", "erase", "staged"}
    PROVE  Work'
BY DEF Work, ImageTask, StageOwned, Staged, UploadImages, GivenCurrent

\* Snapshots of pages that the GPU does not own, or that have a buffer again, grow old.
LEMMA PendingOutdate ==
    ASSUME TypeOK, Pending, NEW range, retired' = Outdate(retired, range),
           UNCHANGED <<buffers, cpuDirty, spoiled>>,
           gpu'.at = "untrack" <=> gpu.at = "untrack",
           \A p \in RetiredPages \ spoiled :
               /\ p \in gpuDirty' <=> p \in gpuDirty
               /\ p \in range => p \notin gpuDirty
    PROVE  Pending'
<1>1. /\ DOMAIN retired' = DOMAIN retired
      /\ \A k \in DOMAIN retired : /\ retired'[k].range = retired[k].range
                                   /\ retired'[k].copied = retired[k].copied
                                   /\ retired'[k].good = retired[k].good \ range
  BY OutdateFacts DEF TypeOK
<1>2. RetiredPages' = RetiredPages /\ Registered' = Registered
  BY <1>1 DEF RetiredPages, Registered
<1>3. Disjoint' /\ UnownedIsCpu' /\ RetiredSpoils'
  BY <1>1, <1>2 DEF Pending, Disjoint, UnownedIsCpu, RetiredSpoils
<1>4. \A k \in DOMAIN retired : retired[k].range \subseteq RetiredPages
  BY DEF RetiredPages
<1>5. RetiredGood'
  BY <1>1, <1>4 DEF Pending, RetiredGood
<1>6. QED
  BY <1>3, <1>5 DEF Pending

\* A store reaches a page only while the CPU owns it and every image on it is dirty.
LEMMA CpuWriteCoherent ==
    ASSUME WatchInv, CoherenceInv, NEW c \in Cpus, NEW p \in Pages, CpuWrite(c, p)
    PROVE  CoherenceInv'
<1> USE DEF trackingVars
<1>1. /\ p \in cpuDirty /\ p \notin gpuDirty
      /\ \A i \in Images : p \in ImagePages[i] => ~images[i].tracked /\ images[i].cpuDirty
  BY ProtectionFacts DEF CpuWrite, CoherenceInv, Work, TrackedOrDirty
<1>2. \A q \in Pages : copies'[q] = IF q = p THEN {"mem"} ELSE copies[q]
  BY DEF CpuWrite, Overwrite
<1>3. UNCHANGED <<cpuDirty, gpuDirty, buffers, gpuRanges, images, spoiled>>
  BY DEF CpuWrite
<1>4. \/ gpu' = gpu /\ gpu.at # "staged"
      \/ /\ gpu.at = "staged" /\ gpu'.at = "staged" /\ gpu'.image = gpu.image
         /\ gpu'.good = gpu.good \ {p} /\ gpu.image \in Images
  BY GpuCases DEF CpuWrite, StagedTask, WatchInv
<1>5. Registered' = Registered /\ InUpload' = InUpload
  BY <1>3, <1>4 DEF Registered, InUpload
<1>6. \A q \in Registered : q \in Pages
  BY DEF Registered, WatchInv, TypeOK
<1>7. \A i \in Images : ImagePages[i] \subseteq Pages
  BY CoherenceAssumption
<1>8. Contents'
  <2>1. MemCurrent'
    BY <1>2, <1>3 DEF CoherenceInv, Contents, MemCurrent
  <2>2. BufferCurrent'
    BY <1>1, <1>2, <1>3, <1>5, <1>6 DEF CoherenceInv, Contents, BufferCurrent
  <2>3. ImageCurrent'
    BY <1>1, <1>2, <1>3, <1>7 DEF CoherenceInv, Contents, ImageCurrent, Clean
  <2>4. QED
    BY <2>1, <2>2, <2>3 DEF Contents
<1>9. Work'
  <2>0. Task'.at = Task.at /\ (Task.at \in {"image", "stage", "staged"} => Task'.image = Task.image)
    BY <1>4 DEF Task
  <2>1. TrackedOrDirty' /\ ImageTask'
    BY <1>3, <2>0 DEF CoherenceInv, Work, TrackedOrDirty, ImageTask
  <2>2. StageOwned'
    BY <1>3, <2>0 DEF CoherenceInv, Work, StageOwned, Owned
  <2>3. Staged'
    <3>1. gpu.at = "staged" => p \notin ImagePages[gpu.image]
      BY <1>1, <1>4 DEF CoherenceInv, Work, ImageTask, Task
    <3>2. QED
      BY <1>3, <1>4, <3>1 DEF CoherenceInv, Work, Staged
  <2>4. UploadImages'
    BY <1>3, <1>4 DEF CoherenceInv, Work, UploadImages, ImagesOn
  <2>5. GivenCurrent'
    <3>1. gpu.at = "unmark" => gpu.range \subseteq Pages
      BY GpuCases DEF GiveTask, WatchInv
    <3>2. QED
      BY <1>2, <1>3, <1>4, <3>1 DEF CoherenceInv, Work, GivenCurrent
  <2>6. QED
    BY <2>1, <2>2, <2>3, <2>4, <2>5 DEF Work
<1>10. Pending'
  <2>1. retired' = Outdate(retired, {p}) /\ (gpu'.at = "untrack" <=> gpu.at = "untrack")
    BY <1>4 DEF CpuWrite
  <2>2. QED
    BY <1>1, <1>3, <2>1, PendingOutdate DEF CoherenceInv, WatchInv
<1>11. QED
  BY <1>8, <1>9, <1>10 DEF CoherenceInv

\* The other steps of guest threads, up to the texture cache.
LEMMA CpuStartsCoherent ==
    ASSUME CoherenceInv, NEW c \in Cpus, NEW p \in Pages, NEW write \in BOOLEAN,
           CpuFault(c, p, write) \/ CpuInvalidate(c, p) \/ CpuUnmap(c, p)
    PROVE  CoherenceInv'
BY StayCoherent DEF CpuFault, CpuInvalidate, CpuUnmap, trackingVars, cacheVars

\* A fault, or the tracker's half of an invalidation, touches no contents.
LEMMA CpuFaultsCoherent ==
    ASSUME CoherenceInv, NEW c \in Cpus, HandleFault(c) \/ InvalidateBuffers(c)
    PROVE  CoherenceInv'
<1> USE DEF trackingVars, cacheVars
<1>1. CASE HandleFault(c)
  BY <1>1, StayCoherent DEF HandleFault, RestoreProtection
<1>2. CASE InvalidateBuffers(c)
  <2>1. cpuDirty \subseteq cpuDirty'
    BY <1>2 DEF InvalidateBuffers, MarkCpu
  <2>2. QED
    BY <1>2, <2>1, MarkCpuCoherent DEF InvalidateBuffers
<1>3. QED
  BY <1>1, <1>2

\* Images become dirty while no image is being refreshed.
LEMMA InvalidateImagesFacts ==
    ASSUME WatchInv, CoherenceInv, NEW p, images' = InvalidateImages(p)
    PROVE  /\ \A i \in Images : /\ images'[i].missed = images[i].missed
                                /\ Clean(images'[i]) => Clean(images[i]) /\ p \notin ImagePages[i]
           /\ TrackedOrDirty'
<1>1. \A i \in Images : images[i] \in ImageState
  BY DEF WatchInv, TypeOK
<1>2. \A i \in Images : images'[i] = IF p \in ImagePages[i]
                           THEN [images[i] EXCEPT !.tracked = FALSE, !.cpuDirty = TRUE]
                           ELSE images[i]
  BY DEF InvalidateImages, ImagesOn
<1>3. ASSUME NEW i \in Images, p \in ImagePages[i]
      PROVE  images'[i].cpuDirty /\ images'[i].missed = images[i].missed
  BY <1>1, <1>2, <1>3 DEF ImageState
<1>4. ASSUME NEW i \in Images, p \notin ImagePages[i]
      PROVE  images'[i] = images[i]
  BY <1>2, <1>4
<1>5. QED
  BY <1>3, <1>4 DEF Clean, CoherenceInv, Work, TrackedOrDirty

\* The images an invalidation reaches become dirty, so none of them need agree any more.
LEMMA InvalidateTexturesCoherent ==
    ASSUME WatchInv, CoherenceInv, NEW c \in Cpus, InvalidateTextures(c)
    PROVE  CoherenceInv'
<1>1. /\ \A i \in Images : /\ images'[i].missed = images[i].missed
                           /\ Clean(images'[i]) => Clean(images[i])
      /\ TrackedOrDirty'
  BY InvalidateImagesFacts DEF InvalidateTextures
<1>2. UNCHANGED <<cpuDirty, gpuDirty, buffers, gpuRanges, retired, copies, gpu, spoiled>>
  BY DEF InvalidateTextures
<1>3. Contents'
  BY <1>1, <1>2 DEF CoherenceInv, Contents, MemCurrent, BufferCurrent, ImageCurrent,
                    Registered, InUpload
<1>4. Task' = Task /\ Task.at \notin {"image", "stage", "staged"}
  BY <1>2 DEF InvalidateTextures, TextureLocked, Task
<1>5. gpu.at # "staged"
  BY <1>4 DEF Task
<1>6. UploadImages' /\ GivenCurrent'
  BY <1>1, <1>2 DEF CoherenceInv, Work, UploadImages, GivenCurrent, ImagesOn
<1>7. Work'
  BY <1>1, <1>2, <1>4, <1>5, <1>6 DEF Work, ImageTask, StageOwned, Staged
<1>8. Pending'
  BY <1>2 DEF CoherenceInv, Pending, Disjoint, UnownedIsCpu, RetiredSpoils, RetiredGood,
              Registered, RetiredPages
<1>9. QED
  BY <1>3, <1>7, <1>8 DEF CoherenceInv

\* GetOrCreateBuffer outside of an upload: the pages that get a buffer are the CPU's, or of a
\* pending download and spoiled from now on.
LEMMA BufferMade ==
    ASSUME WatchInv, CoherenceInv, NEW range \in SUBSET Pages, GetOrCreateBuffer(range),
           UNCHANGED <<retired, gpuDirty>>, gpu.at \notin {"upload", "untrack"},
           gpu'.at # "untrack"
    PROVE  /\ Disjoint' /\ RetiredSpoils' /\ RetiredGood'
           /\ Owned(range)' /\ spoiled \subseteq spoiled'
           /\ Registered \subseteq Registered' /\ range \subseteq Registered'
           /\ \A p \in Registered' : p \in cpuDirty \union spoiled' \/ "buf" \in copies[p]
<1>0. spoiled \subseteq spoiled' /\ RetiredPages' = RetiredPages
  BY DEF GetOrCreateBuffer, RetiredPages
<1>1. Registered \subseteq Registered' /\ range \subseteq Registered'
  BY GetOrCreateBufferFacts DEF WatchInv
<1>2. ASSUME NEW p \in Registered', p \notin Registered
      PROVE  p \in cpuDirty \/ p \in spoiled'
  <2>1. ~Owned(range) /\ p \in Merged(range)
    BY <1>2 DEF GetOrCreateBuffer, Registered
  <2>2. p \in RetiredPages => p \in spoiled'
    BY <2>1 DEF GetOrCreateBuffer
  <2>3. p \in Pages
    BY GetOrCreateBufferFacts DEF WatchInv, Registered
  <2>4. QED
    BY <1>2, <2>2, <2>3 DEF CoherenceInv, Pending, UnownedIsCpu
<1>3. ASSUME NEW p \in Registered', p \in RetiredPages
      PROVE  p \in spoiled'
  <2>1. CASE p \in Registered
    BY <1>0, <1>3, <2>1 DEF CoherenceInv, Pending, RetiredSpoils
  <2>2. CASE p \notin Registered
    <3>1. ~Owned(range) /\ p \in Merged(range)
      BY <2>2 DEF GetOrCreateBuffer, Registered
    <3>2. QED
      BY <1>3, <3>1 DEF GetOrCreateBuffer
  <2>3. QED
    BY <2>1, <2>2
<1>4. RetiredSpoils'
  BY <1>0, <1>3 DEF CoherenceInv, Pending, RetiredSpoils
<1>5. RetiredGood'
  BY <1>0 DEF CoherenceInv, Pending, RetiredGood
<1>6. \A p \in Registered' : p \in cpuDirty \union spoiled' \/ "buf" \in copies[p]
  BY <1>0, <1>2 DEF CoherenceInv, Contents, BufferCurrent, InUpload
<1>7. Disjoint' /\ Owned(range)'
  <2>1. CASE Owned(range)
    <3>1. buffers' = buffers
      BY <2>1 DEF GetOrCreateBuffer
    <3>2. QED
      BY <2>1, <3>1 DEF CoherenceInv, Pending, Disjoint, Owned
  <2>2. CASE ~Owned(range)
    <3>1. buffers' = (buffers \ Overlapping(Aligned(range))) \union {Merged(range)}
      BY <2>2 DEF GetOrCreateBuffer
    <3>2. ASSUME NEW b \in buffers \ Overlapping(Aligned(range))
          PROVE  b \intersect Merged(range) = {}
      <4>1. b \intersect Aligned(range) = {}
        BY DEF Overlapping
      <4>2. \A a \in Overlapping(Aligned(range)) : a \intersect b = {}
        BY DEF CoherenceInv, Pending, Disjoint, Overlapping
      <4>3. QED
        BY <4>1, <4>2 DEF Merged
    <3>3. Disjoint'
      BY <3>1, <3>2 DEF CoherenceInv, Pending, Disjoint
    <3>4. range \subseteq Merged(range)
      BY DEF Merged, Aligned
    <3>5. QED
      BY <3>1, <3>3, <3>4 DEF Owned
  <2>3. QED
    BY <2>1, <2>2
<1>8. QED
  BY <1>0, <1>1, <1>4, <1>5, <1>6, <1>7

\* The pages of the buffer found or made are current, or CPU-dirty and about to be uploaded.
LEMMA ObtainBufferCoherent ==
    ASSUME WatchInv, CoherenceInv, NEW range \in SUBSET Pages, NEW written \in BOOLEAN,
           NEW formatted \in BOOLEAN, ObtainBuffer(range, written, formatted)
    PROVE  CoherenceInv'
<1>1. /\ gpu.at = "idle" /\ gpu'.at = "upload" /\ gpu'.range = range /\ gpu'.written = written
      /\ gpu'.uploads = range \intersect cpuDirty
  BY DEF ObtainBuffer, Idle
<1>2. UNCHANGED <<gpuDirty, gpuRanges, retired, copies>> /\ cpuDirty' = cpuDirty \ range
  BY DEF ObtainBuffer, ClearCpu
<1>3. /\ Disjoint' /\ RetiredSpoils' /\ RetiredGood'
      /\ Owned(range)' /\ spoiled \subseteq spoiled'
      /\ Registered \subseteq Registered' /\ range \subseteq Registered'
      /\ \A p \in Registered' : p \in cpuDirty \union spoiled' \/ "buf" \in copies[p]
  BY <1>1, <1>2, BufferMade DEF ObtainBuffer
<1>4. \A i \in Images :
         /\ images'[i].tracked = images[i].tracked
         /\ images'[i].cpuDirty = images[i].cpuDirty
         /\ Clean(images'[i]) => Clean(images[i]) /\ images[i].missed \subseteq images'[i].missed
         /\ written /\ Clean(images'[i]) => ImagePages[i] \intersect range \subseteq images'[i].missed
  BY MarkImagesFacts DEF ObtainBuffer, WatchInv
<1>5. Contents'
  <2>1. MemCurrent' /\ ImageCurrent'
    BY <1>2, <1>3, <1>4 DEF CoherenceInv, Contents, MemCurrent, ImageCurrent
  <2>2. InUpload' = range \intersect cpuDirty
    BY <1>1 DEF InUpload
  <2>3. BufferCurrent'
    BY <1>2, <1>3, <2>2 DEF BufferCurrent
  <2>4. QED
    BY <2>1, <2>3 DEF Contents
<1>6. Work'
  <2>1. Task'.at = "upload"
    BY <1>1 DEF Task
  <2>2. TrackedOrDirty'
    BY <1>4 DEF CoherenceInv, Work, TrackedOrDirty
  <2>3. UploadImages'
    BY <1>1, <1>4 DEF UploadImages
  <2>4. QED
    BY <1>1, <2>1, <2>2, <2>3 DEF Work, ImageTask, StageOwned, Staged, GivenCurrent
<1>7. Pending'
  <2>1. RetiredPages' = RetiredPages
    BY <1>2 DEF RetiredPages
  <2>2. UnownedIsCpu'
    BY <1>2, <1>3, <2>1 DEF CoherenceInv, Pending, UnownedIsCpu
  <2>3. QED
    BY <1>3, <2>2 DEF Pending
<1>8. QED
  BY <1>5, <1>6, <1>7 DEF CoherenceInv

\* After the upload the buffer is current on its range.  A written one is then the only current
\* copy: the images on it are marked, or have missed the write.
LEMMA UploadCoherent ==
    ASSUME WatchInv, CoherenceInv, Upload
    PROVE  CoherenceInv'
<1>1. gpu.at = "upload" /\ gpu \in UploadTask /\ gpu' = Idle /\ gpu'.at = "idle"
  BY GpuCases DEF Upload, WatchInv, Idle
<1>2. /\ gpu.range \subseteq Registered /\ gpu.uploads \subseteq gpu.range
      /\ gpu.uploads \intersect gpuDirty = {} /\ gpu.range \subseteq Pages
  BY <1>1 DEF WatchInv, Owners, UploadOwned, UploadTask
<1> DEFINE uploaded == CopyPages(copies, gpu.uploads, "mem", "buf")
<1>3. ASSUME NEW p \in Pages
      PROVE  /\ "mem" \in uploaded[p] <=> "mem" \in copies[p]
             /\ \A i \in Images : i \in uploaded[p] <=> i \in copies[p]
             /\ p \notin gpu.uploads => uploaded[p] = copies[p]
             /\ p \in gpu.uploads \ spoiled => "buf" \in uploaded[p]
  <2>1. p \in gpu.uploads \ spoiled => "mem" \in copies[p]
    BY <1>2 DEF CoherenceInv, Contents, MemCurrent
  <2>2. \A i \in Images : i # "buf"
    BY CoherenceAssumption
  <2>3. QED
    BY <2>1, <2>2 DEF CopyPages
<1> HIDE DEF uploaded
<1>4. Registered' = Registered /\ UNCHANGED <<buffers, images, spoiled>> /\ Registered \subseteq Pages
  BY DEF Upload, Registered, WatchInv, TypeOK
<1>5. InUpload' = {} /\ InUpload = gpu.uploads /\ Task'.at = "idle"
  BY <1>1 DEF InUpload, Task
<1>6. TrackedOrDirty'
  BY <1>4 DEF CoherenceInv, Work, TrackedOrDirty
<1>7. Work'
  BY <1>1, <1>5, <1>6, WorkRests
<1>8. CASE ~gpu.written /\ copies' = uploaded /\ UNCHANGED <<trackingVars, gpuRanges, retired>>
  <2> USE DEF trackingVars
  <2>1. MemCurrent'
    BY <1>3, <1>4, <1>8 DEF CoherenceInv, Contents, MemCurrent
  <2>2. BufferCurrent'
    BY <1>3, <1>4, <1>5, <1>8 DEF CoherenceInv, Contents, BufferCurrent
  <2>3. ImageCurrent'
    <3>1. \A i \in Images : ImagePages[i] \subseteq Pages
      BY CoherenceAssumption
    <3>2. QED
      BY <1>3, <1>4, <1>8, <3>1 DEF CoherenceInv, Contents, ImageCurrent
  <2>4. Pending'
    BY <1>1, <1>4, <1>8 DEF CoherenceInv, Pending, Disjoint, UnownedIsCpu, RetiredSpoils,
                            RetiredGood, RetiredPages
  <2>5. QED
    BY <1>7, <2>1, <2>2, <2>3, <2>4 DEF CoherenceInv, Contents
<1>9. CASE /\ gpu.written
           /\ MarkGpu(gpu.range)
           /\ gpuRanges' = gpuRanges \union gpu.range
           /\ copies' = [p \in Pages |-> IF p \in gpu.range THEN {"buf"} ELSE uploaded[p]]
           /\ retired' = Outdate(retired, gpu.range)
           /\ UNCHANGED cpuDirty
  <2>1. gpuDirty' = gpuDirty \union gpu.range
    BY <1>9 DEF MarkGpu
  <2>2. /\ \A p \in Pages \ gpu.range : copies'[p] = copies[p]
        /\ \A p \in gpu.range : "buf" \in copies'[p]
    BY <1>2, <1>3, <1>9
  <2>3. MemCurrent'
    BY <1>4, <2>1, <2>2 DEF CoherenceInv, Contents, MemCurrent
  <2>4. BufferCurrent'
    BY <1>2, <1>4, <1>5, <1>9, <2>2 DEF CoherenceInv, Contents, BufferCurrent
  <2>5. ImageCurrent'
    <3>1. \A i \in Images : ImagePages[i] \subseteq Pages
      BY CoherenceAssumption
    <3>2. \A i \in Images : Clean(images[i]) => ImagePages[i] \intersect gpu.range \subseteq images[i].missed
      BY <1>1, <1>9 DEF CoherenceInv, Work, UploadImages
    <3>3. ASSUME NEW i \in Images, Clean(images[i]), NEW p \in ImagePages[i] \ spoiled
          PROVE  p \in images[i].missed \/ i \in copies'[p]
      <4>1. (p \in images[i].missed \/ i \in copies[p]) /\ p \in Pages
        BY <3>1, <3>3 DEF CoherenceInv, Contents, ImageCurrent
      <4>2. CASE p \notin gpu.range
        BY <2>2, <4>1, <4>2
      <4>3. CASE p \in gpu.range
        BY <3>2, <3>3, <4>3
      <4>4. QED
        BY <4>2, <4>3
    <3>4. QED
      BY <1>4, <3>3 DEF ImageCurrent
  <2>6. Pending'
    <3>1. \A p \in RetiredPages \ spoiled : p \notin gpu.range
      BY <1>2 DEF CoherenceInv, Pending, RetiredSpoils
    <3>2. QED
      BY <1>1, <1>4, <1>9, <2>1, <3>1, PendingOutdate DEF CoherenceInv, WatchInv
  <2>7. QED
    BY <1>7, <2>3, <2>4, <2>5, <2>6 DEF CoherenceInv, Contents
<1>10. QED
  BY <1>8, <1>9 DEF Upload, uploaded

\* A page the GPU thread writes in guest memory is not GPU-modified, and no image of it stays clean.
LEMMA WriteHostMemoryCoherent ==
    ASSUME WatchInv, CoherenceInv, NEW p \in Pages, WriteHostMemory(p)
    PROVE  CoherenceInv'
<1>1. /\ \A i \in Images : /\ images'[i].missed = images[i].missed
                           /\ Clean(images'[i]) => Clean(images[i]) /\ p \notin ImagePages[i]
      /\ TrackedOrDirty'
  BY InvalidateImagesFacts DEF WriteHostMemory
<1>2. UNCHANGED <<cpuDirty, gpuDirty, buffers, gpuRanges, gpu, spoiled>> /\ gpu.at = "idle"
  BY DEF WriteHostMemory, Idle
<1>3. p \notin gpuDirty
  BY <1>2 DEF WriteHostMemory, WatchInv, Owners, DirtyInRanges
<1>4. /\ \A q \in Pages \ {p} : copies'[q] = copies[q]
      /\ "mem" \in copies'[p] /\ ("buf" \in copies[p] => "buf" \in copies'[p])
  BY DEF WriteHostMemory, Overwrite
<1>5. Registered' = Registered /\ Registered \subseteq Pages /\ InUpload' = InUpload
  BY <1>2 DEF Registered, WatchInv, TypeOK, InUpload
<1>6. \A i \in Images : ImagePages[i] \subseteq Pages
  BY CoherenceAssumption
<1>7. Contents'
  <2>1. MemCurrent'
    BY <1>2, <1>4 DEF CoherenceInv, Contents, MemCurrent
  <2>2. BufferCurrent'
    BY <1>2, <1>4, <1>5 DEF CoherenceInv, Contents, BufferCurrent
  <2>3. ImageCurrent'
    BY <1>1, <1>2, <1>4, <1>6 DEF CoherenceInv, Contents, ImageCurrent
  <2>4. QED
    BY <2>1, <2>2, <2>3 DEF Contents
<1>8. Work'
  <2>1. Task'.at = "idle"
    BY <1>2 DEF Task
  <2>2. QED
    BY <1>1, <1>2, <2>1, WorkRests
<1>9. Pending'
  BY <1>2, <1>3, PendingOutdate DEF CoherenceInv, WatchInv, WriteHostMemory
<1>10. QED
  BY <1>7, <1>8, <1>9 DEF CoherenceInv
\* The GPU thread goes from one task to the next, and no page, buffer or image changes.
LEMMA TaskChangesCoherent ==
    ASSUME CoherenceInv, gpu.at = "idle", gpu'.at = "finish",
           UNCHANGED <<cpuDirty, gpuDirty, buffers, gpuRanges, retired, images, copies, spoiled>>
    PROVE  CoherenceInv'
<1>1. InUpload = {} /\ InUpload' = {} /\ Task'.at = "finish"
  BY DEF InUpload, Task
<1>2. Contents'
  BY <1>1 DEF CoherenceInv, Contents, MemCurrent, BufferCurrent, ImageCurrent, Registered
<1>3. TrackedOrDirty'
  BY DEF CoherenceInv, Work, TrackedOrDirty
<1>4. Work'
  BY <1>1, <1>3, WorkRests
<1>5. Pending'
  BY DEF CoherenceInv, Pending, Disjoint, UnownedIsCpu, RetiredSpoils, RetiredGood, Registered,
         RetiredPages
<1>6. QED
  BY <1>2, <1>4, <1>5 DEF CoherenceInv

\* A command reads nothing back by itself.
LEMMA ReadMemoryCoherent ==
    ASSUME WatchInv, CoherenceInv, ReadMemory
    PROVE  CoherenceInv'
<1> USE DEF cacheVars
<1> DEFINE command == Head(commands)
           p == command.page
           write == command.kind = "write"
           found == p \in gpuDirty \intersect gpuRanges
<1>1. gpu = Idle
  BY DEF ReadMemory
<1>2. CASE UNCHANGED <<trackingVars, cacheVars, copies, gpu, spoiled>>
  BY <1>2, StayCoherent DEF trackingVars
<1>3. CASE /\ IF write THEN MarkCpu({p}) ELSE UNCHANGED <<pages, cpuDirty>>
           /\ UNCHANGED <<gpuDirty, cacheVars, copies, gpu, spoiled, halted>>
  <2>1. cpuDirty \subseteq cpuDirty'
    BY <1>3 DEF MarkCpu
  <2>2. QED
    BY <1>3, <2>1, MarkCpuCoherent
<1>4. CASE /\ gpu' = [at |-> "finish", command |-> command, range |-> {p}]
           /\ UNCHANGED <<trackingVars, cacheVars, copies, cpu, spoiled, halted>>
  <2>1. gpu.at = "idle" /\ gpu'.at = "finish"
    BY <1>1, <1>4 DEF Idle
  <2>2. QED
    BY <1>4, <2>1, TaskChangesCoherent DEF trackingVars
<1>5. CASE Halt("readback has no buffer owner")
  BY <1>2, <1>5 DEF Halt
<1>6. QED
  BY <1>2, <1>3, <1>4, <1>5 DEF ReadMemory

\* Nor does an unmap.
LEMMA UnmapMemoryCoherent ==
    ASSUME WatchInv, CoherenceInv, UnmapMemory
    PROVE  CoherenceInv'
<1>1. gpu.at = "idle" /\ gpu'.at = "finish"
  BY DEF UnmapMemory, Idle
<1>2. QED
  BY <1>1, TaskChangesCoherent DEF UnmapMemory, trackingVars, cacheVars

\* With no download pending, the pages the GPU owns are in a buffer that is current.
LEMMA PublishCoherent ==
    ASSUME WatchInv, CoherenceInv, Publish
    PROVE  CoherenceInv'
<1> DEFINE range == IF gpu.command.kind = "unmap" THEN UNION Overlapping(gpu.range) ELSE gpu.range
           read == range \intersect gpuDirty \intersect gpuRanges
<1>1. gpu.at = "finish" /\ gpu \in GiveTask /\ retired = <<>>
  BY GpuCases DEF Publish, WatchInv
<1>2. range \subseteq Pages /\ gpuDirty \subseteq Pages
  BY <1>1 DEF GiveTask, WatchInv, TypeOK, Overlapping
<1>3. /\ UNCHANGED <<cpuDirty, gpuDirty, buffers, retired, images, spoiled>>
      /\ gpu' = [gpu EXCEPT !.at = "unmark", !.range = range]
      /\ copies' = CopyPages(copies, read, "buf", "mem")
  BY DEF Publish, trackingVars
<1>4. gpu'.at = "unmark" /\ gpu'.range = range /\ Task' = gpu'
  <2> HIDE DEF range
  <2>1. gpu'.at = "unmark" /\ gpu'.range = range
    BY <1>1, <1>3 DEF GiveTask
  <2>2. QED
    BY <2>1 DEF Task
<1>5. read \subseteq range \intersect gpuDirty
      /\ \A p \in range \intersect gpuDirty : p \in read
  BY <1>1 DEF WatchInv, Owners, DirtyInRanges
<1>6. \A p \in gpuDirty \ spoiled : "buf" \in copies[p]
  <2>1. RetiredPages = {}
    BY <1>1 DEF RetiredPages
  <2>2. InUpload = {} /\ cpuDirty \intersect gpuDirty = {}
    BY <1>1 DEF InUpload, WatchInv, WatchersExact
  <2>3. QED
    BY <2>1, <2>2 DEF WatchInv, Owners, DirtyHasOwner, CoherenceInv, Contents, BufferCurrent
<1> HIDE DEF range, read
<1>7. ASSUME NEW p \in Pages
      PROVE  /\ "buf" \in copies'[p] <=> "buf" \in copies[p]
             /\ \A i \in Images : i \in copies'[p] <=> i \in copies[p]
             /\ p \notin gpuDirty => copies'[p] = copies[p]
             /\ p \in (range \intersect gpuDirty) \ spoiled => "mem" \in copies'[p]
  <2>1. \A i \in Images : i # "mem"
    BY CoherenceAssumption
  <2>2. QED
    BY <1>3, <1>5, <1>6, <2>1 DEF CopyPages
<1>8. Registered' = Registered /\ Registered \subseteq Pages /\ InUpload' = {} /\ InUpload = {}
  BY <1>1, <1>3, <1>4 DEF Registered, InUpload, WatchInv, TypeOK
<1>9. Contents'
  <2>1. MemCurrent'
    BY <1>3, <1>7 DEF CoherenceInv, Contents, MemCurrent
  <2>2. BufferCurrent'
    BY <1>3, <1>7, <1>8 DEF CoherenceInv, Contents, BufferCurrent
  <2>3. ImageCurrent'
    <3>1. \A i \in Images : ImagePages[i] \subseteq Pages
      BY CoherenceAssumption
    <3>2. QED
      BY <1>3, <1>7, <3>1 DEF CoherenceInv, Contents, ImageCurrent
  <2>4. QED
    BY <2>1, <2>2, <2>3 DEF Contents
<1>10. Work'
  <2>1. TrackedOrDirty'
    BY <1>3 DEF CoherenceInv, Work, TrackedOrDirty
  <2>2. \A p \in range \ spoiled : "mem" \in copies'[p]
    BY <1>2, <1>7 DEF CoherenceInv, Contents, MemCurrent
  <2>3. GivenCurrent'
    BY <1>3, <1>4, <2>2 DEF GivenCurrent
  <2>4. QED
    BY <1>4, <2>1, <2>3 DEF Work, ImageTask, StageOwned, Staged, UploadImages
<1>11. Pending'
  BY <1>1, <1>3, <1>4, <1>8 DEF CoherenceInv, Pending, Disjoint, UnownedIsCpu, RetiredSpoils,
                                RetiredGood, RetiredPages
<1>12. QED
  BY <1>9, <1>10, <1>11 DEF CoherenceInv

\* The GPU gives up pages that were read back.
LEMMA UnmarkRangeCoherent ==
    ASSUME WatchInv, CoherenceInv, UnmarkRange
    PROVE  CoherenceInv'
<1>1. gpu.at = "unmark" /\ gpu \in GiveTask /\ retired = <<>> /\ DOMAIN retired = {}
  BY GpuCases DEF UnmarkRange, WatchInv, Owners, Given, Giving
<1>2. /\ UNCHANGED <<cpuDirty, buffers, retired, images, copies, spoiled>>
      /\ gpuDirty' = gpuDirty \ gpu.range
  BY DEF UnmarkRange, UnmarkGpu, cacheVars
<1>3. gpu'.at \in {"idle", "mark"}
  BY <1>1 DEF UnmarkRange, Idle, GiveTask
<1>4. Task' = gpu' /\ InUpload' = {} /\ InUpload = {}
  BY <1>1, <1>3 DEF Task, InUpload
<1>5. Contents'
  BY <1>1, <1>2, <1>4 DEF CoherenceInv, Contents, MemCurrent, BufferCurrent, ImageCurrent,
                          Registered, Work, GivenCurrent
<1>6. TrackedOrDirty'
  BY <1>2 DEF CoherenceInv, Work, TrackedOrDirty
<1>7. Work'
  BY <1>3, <1>4, <1>6, WorkRests
<1>8. Pending'
  BY <1>1, <1>2 DEF CoherenceInv, Pending, Disjoint, UnownedIsCpu, RetiredSpoils, RetiredGood,
                    Registered, RetiredPages
<1>9. QED
  BY <1>5, <1>7, <1>8 DEF CoherenceInv

\* The CPU takes them.
LEMMA MarkRangeCoherent ==
    ASSUME WatchInv, CoherenceInv, MarkRange
    PROVE  CoherenceInv'
<1>1. gpu.at = "mark" /\ gpu \in GiveTask
  BY GpuCases DEF MarkRange, WatchInv
<1>2. /\ UNCHANGED <<gpuDirty, buffers, retired, images, copies, spoiled>>
      /\ cpuDirty' = cpuDirty \union gpu.range
  BY DEF MarkRange, MarkCpu, cacheVars
<1>3. gpu'.at = "idle" \/ (gpu'.at = "erase" /\ gpu'.range = gpu.range)
  BY <1>1 DEF MarkRange, Idle, GiveTask
<1>4. Task' = gpu' /\ InUpload' = {} /\ InUpload = {}
  BY <1>1, <1>3 DEF Task, InUpload
<1>5. Contents'
  BY <1>2, <1>4 DEF CoherenceInv, Contents, MemCurrent, BufferCurrent, ImageCurrent, Registered
<1>6. TrackedOrDirty' /\ GivenCurrent'
  BY <1>2, <1>3 DEF CoherenceInv, Work, TrackedOrDirty, GivenCurrent
<1>7. Work'
  BY <1>3, <1>4, <1>6 DEF Work, ImageTask, StageOwned, Staged, UploadImages
<1>8. Pending'
  BY <1>1, <1>2, <1>3 DEF CoherenceInv, Pending, Disjoint, UnownedIsCpu, RetiredSpoils,
                          RetiredGood, Registered, RetiredPages
<1>9. QED
  BY <1>5, <1>7, <1>8 DEF CoherenceInv

\* The pages of the erased buffers belong to the CPU already.
LEMMA EraseCoherent ==
    ASSUME WatchInv, CoherenceInv, Erase
    PROVE  CoherenceInv'
<1> DEFINE p == gpu.command.page
<1>1. gpu.at = "erase" /\ gpu \in GiveTask /\ p \in Pages
  BY GpuCases DEF Erase, GiveTask, Command, WatchInv
<1>2. /\ retired = <<>> /\ DOMAIN retired = {} /\ gpu.range = UNION Overlapping({p})
      /\ gpu.range \subseteq cpuDirty
  <2>1. retired = <<>> /\ gpu.range = UNION Overlapping({p})
    BY <1>1 DEF WatchInv, Owners, Given, Giving
  <2>2. gpu.range \subseteq cpuDirty
    BY <1>1 DEF CoherenceInv, Work, GivenCurrent
  <2>3. DOMAIN <<>> = {}
    OBVIOUS
  <2>4. QED
    BY <2>1, <2>2, <2>3, Zenon
<1>3. /\ UNCHANGED <<gpuDirty, retired, spoiled>> /\ gpu' = Idle
      /\ cpuDirty' = cpuDirty \union {p} /\ buffers' = buffers \ Overlapping({p})
      /\ images' = [i \in Images |-> IF i \in ImagesOn({p}) THEN NewImage ELSE images[i]]
      /\ copies' = [q \in Pages |-> CASE q = p -> {"mem"}
                                      [] q # p /\ q \in gpu.range -> copies[q] \ {"buf"}
                                      [] OTHER -> copies[q]]
  BY DEF Erase
<1> HIDE DEF p
<1>4. ASSUME NEW q \in Pages
      PROVE  /\ "mem" \in copies[q] => "mem" \in copies'[q]
             /\ q # p => \A i \in Images : i \in copies'[q] <=> i \in copies[q]
             /\ q = p => "mem" \in copies'[q]
             /\ q # p /\ q \notin gpu.range => copies'[q] = copies[q]
  <2>1. \A i \in Images : i # "buf"
    BY CoherenceAssumption
  <2>2. QED
    BY <1>3, <2>1
<1>5. ASSUME NEW q \in Registered'
      PROVE  q \in Registered /\ q # p /\ q \in Pages
  BY <1>3 DEF Registered, Overlapping, WatchInv, TypeOK
<1>6. ASSUME NEW q \in Registered, q \notin Registered'
      PROVE  q \in gpu.range
  BY <1>2, <1>3, <1>6 DEF Registered
<1>7. ASSUME NEW i \in Images
      PROVE  /\ images'[i].tracked \/ images'[i].cpuDirty
             /\ Clean(images'[i]) => images'[i] = images[i] /\ p \notin ImagePages[i]
  <2>1. i \in ImagesOn({p}) <=> p \in ImagePages[i]
    BY DEF ImagesOn
  <2>2. NewImage.cpuDirty /\ ~Clean(NewImage)
    BY DEF Clean, NewImage
  <2>3. images[i].tracked \/ images[i].cpuDirty
    BY DEF CoherenceInv, Work, TrackedOrDirty
  <2>4. images'[i] = IF i \in ImagesOn({p}) THEN NewImage ELSE images[i]
    BY <1>3
  <2>5. QED
    BY <2>1, <2>2, <2>3, <2>4, Zenon
<1>8. gpu'.at = "idle" /\ Task' = gpu' /\ InUpload' = {} /\ InUpload = {}
  BY <1>1, <1>3 DEF Idle, Task, InUpload
<1>9. Contents'
  <2>1. MemCurrent'
    BY <1>3, <1>4 DEF CoherenceInv, Contents, MemCurrent
  <2>2. BufferCurrent'
    BY <1>2, <1>3, <1>4, <1>5, <1>8 DEF CoherenceInv, Contents, BufferCurrent
  <2>3. ImageCurrent'
    <3>1. \A i \in Images : ImagePages[i] \subseteq Pages
      BY CoherenceAssumption
    <3>2. ASSUME NEW i \in Images, Clean(images'[i]), NEW q \in ImagePages[i] \ spoiled'
          PROVE  q \in images'[i].missed \/ i \in copies'[q]
      <4>1. Clean(images[i]) /\ images'[i] = images[i] /\ q # p /\ q \in Pages /\ q \notin spoiled
        BY <1>3, <1>7, <3>1, <3>2
      <4>2. q \in images[i].missed \/ i \in copies[q]
        BY <3>2, <4>1 DEF CoherenceInv, Contents, ImageCurrent
      <4>3. QED
        BY <1>4, <4>1, <4>2
    <3>3. QED
      BY <3>2 DEF ImageCurrent
  <2>4. QED
    BY <2>1, <2>2, <2>3 DEF Contents
<1>10. Work'
  <2>1. TrackedOrDirty'
    BY <1>7 DEF TrackedOrDirty
  <2>2. QED
    BY <1>8, <2>1, WorkRests
<1>11. Pending'
  <2>1. RetiredPages = {} /\ RetiredPages' = {}
    BY <1>2, <1>3 DEF RetiredPages
  <2>2. UnownedIsCpu'
    BY <1>2, <1>3, <1>6, <2>1 DEF CoherenceInv, Pending, UnownedIsCpu
  <2>3. Disjoint' /\ RetiredSpoils' /\ RetiredGood'
    BY <1>2, <1>3, <2>1 DEF CoherenceInv, Pending, Disjoint, RetiredSpoils, RetiredGood
  <2>4. QED
    BY <2>2, <2>3 DEF Pending
<1>12. QED
  BY <1>9, <1>10, <1>11 DEF CoherenceInv

\* The download of a dropped buffer carries every page of it that the GPU owns.
LEMMA CollectBufferCoherent ==
    ASSUME WatchInv, CoherenceInv, NEW b \in buffers, CollectBuffer(b)
    PROVE  CoherenceInv'
<1> DEFINE dirty == b \intersect gpuDirty
<1>1. /\ gpu' = gpu /\ gpu.at = "idle" /\ b \subseteq Pages /\ b \subseteq Registered
      /\ UNCHANGED <<gpuDirty, gpuRanges, images, spoiled>> /\ cpuDirty \subseteq cpuDirty'
  BY DEF CollectBuffer, Idle, WatchInv, TypeOK, Registered, trackingVars, MarkCpu
<1>2. /\ buffers' = buffers \ {b}
      /\ copies' = [p \in Pages |-> IF p \in b THEN copies[p] \ {"buf"} ELSE copies[p]]
  BY DEF CollectBuffer
<1>3. ASSUME NEW p \in Registered'
      PROVE  p \in Registered /\ p \notin b /\ p \in Pages
  BY <1>2 DEF Registered, CoherenceInv, Pending, Disjoint, WatchInv, TypeOK
<1>4. Registered \subseteq Registered' \union b
  BY <1>2 DEF Registered
<1>5. ASSUME NEW p \in Pages
      PROVE  /\ "mem" \in copies'[p] <=> "mem" \in copies[p]
             /\ \A i \in Images : i \in copies'[p] <=> i \in copies[p]
             /\ p \notin b => copies'[p] = copies[p]
  <2>1. \A i \in Images : i # "buf"
    BY CoherenceAssumption
  <2>2. QED
    BY <1>2, <2>1
<1>6. Task' = gpu' /\ InUpload' = {} /\ InUpload = {}
  BY <1>1 DEF Task, InUpload
<1>7. Contents'
  <2>1. MemCurrent'
    BY <1>1, <1>5 DEF CoherenceInv, Contents, MemCurrent
  <2>2. BufferCurrent'
    BY <1>1, <1>3, <1>5, <1>6 DEF CoherenceInv, Contents, BufferCurrent
  <2>3. ImageCurrent'
    <3>1. \A i \in Images : ImagePages[i] \subseteq Pages
      BY CoherenceAssumption
    <3>2. QED
      BY <1>1, <1>5, <3>1 DEF CoherenceInv, Contents, ImageCurrent
  <2>4. QED
    BY <2>1, <2>2, <2>3 DEF Contents
<1>8. Work'
  <2>1. TrackedOrDirty'
    BY <1>1 DEF CoherenceInv, Work, TrackedOrDirty
  <2>2. QED
    BY <1>1, <1>6, <2>1, WorkRests
<1>9. Disjoint'
  BY <1>2 DEF CoherenceInv, Pending, Disjoint
<1>10. CASE dirty = {} /\ MarkCpu(b) /\ UNCHANGED <<gpuDirty, retired>>
  <2>1. cpuDirty' = cpuDirty \union b /\ RetiredPages' = RetiredPages
    BY <1>10 DEF MarkCpu, RetiredPages
  <2>2. UnownedIsCpu'
    BY <1>4, <2>1 DEF CoherenceInv, Pending, UnownedIsCpu
  <2>3. RetiredSpoils' /\ RetiredGood'
    BY <1>1, <1>3, <1>10, <2>1 DEF CoherenceInv, Pending, RetiredSpoils, RetiredGood
  <2>4. QED
    BY <1>7, <1>8, <1>9, <2>2, <2>3 DEF CoherenceInv, Pending
<1>11. CASE /\ retired' = Append(retired,
                  [range |-> b, copied |-> dirty \intersect gpuRanges,
                   good |-> {p \in dirty \intersect gpuRanges : "buf" \in copies[p]}])
            /\ UNCHANGED trackingVars
  <2> DEFINE download == [range |-> b, copied |-> dirty \intersect gpuRanges,
                          good |-> {p \in dirty \intersect gpuRanges : "buf" \in copies[p]}]
  <2>1. /\ download \in Download /\ download.range = b
        /\ download.copied = dirty \intersect gpuRanges
        /\ download.good = {p \in dirty \intersect gpuRanges : "buf" \in copies[p]}
    BY <1>1 DEF Download
  <2>2. retired \in Seq(Download) /\ retired' = Append(retired, download)
    BY <1>11 DEF WatchInv, TypeOK
  <2> HIDE DEF download
  <2>3. /\ Len(retired') = Len(retired) + 1 /\ retired' \in Seq(Download)
        /\ \A k \in 1 .. Len(retired) : retired'[k] = retired[k]
        /\ retired'[Len(retired) + 1] = download
    BY <2>1, <2>2, AppendProperties
  <2>4. /\ Len(retired) \in Nat /\ DOMAIN retired = 1 .. Len(retired)
        /\ DOMAIN retired' = 1 .. Len(retired) + 1
    BY <2>2, <2>3, LenProperties
  <2> DEFINE last == Len(retired) + 1
  <2>5. /\ \A k \in DOMAIN retired' : k \in DOMAIN retired \/ k = last
        /\ last \in DOMAIN retired' /\ last \notin DOMAIN retired
        /\ DOMAIN retired \subseteq DOMAIN retired'
        /\ \A k \in DOMAIN retired : retired'[k] = retired[k]
        /\ retired'[last] = download
    BY <2>3, <2>4
  <2> HIDE DEF last
  <2>6. RetiredPages' = RetiredPages \union b
    BY <2>1, <2>5 DEF RetiredPages
  <2>7. UnownedIsCpu'
    BY <1>1, <1>4, <2>6 DEF CoherenceInv, Pending, UnownedIsCpu
  <2>8. RetiredSpoils'
    <3>1. Registered' \intersect RetiredPages' \subseteq spoiled
      BY <1>3, <2>6 DEF CoherenceInv, Pending, RetiredSpoils
    <3>2. ASSUME NEW k \in DOMAIN retired
          PROVE  retired[k].range \intersect b \subseteq spoiled
      <4>1. retired[k].range \subseteq RetiredPages
        BY DEF RetiredPages
      <4>2. QED
        BY <1>1, <4>1 DEF CoherenceInv, Pending, RetiredSpoils
    <3>3. ASSUME NEW k \in DOMAIN retired', NEW l \in DOMAIN retired', k # l
          PROVE  retired'[k].range \intersect retired'[l].range \subseteq spoiled
      <4>1. CASE k \in DOMAIN retired /\ l \in DOMAIN retired
        BY <2>5, <3>3, <4>1 DEF CoherenceInv, Pending, RetiredSpoils
      <4>2. CASE k = last
        <5>1. l \in DOMAIN retired /\ retired'[l] = retired[l] /\ retired'[k].range = b
          BY <2>1, <2>5, <3>3, <4>2
        <5>2. QED
          BY <3>2, <5>1
      <4>3. CASE l = last
        <5>1. k \in DOMAIN retired /\ retired'[k] = retired[k] /\ retired'[l].range = b
          BY <2>1, <2>5, <3>3, <4>3
        <5>2. QED
          BY <3>2, <5>1
      <4>4. QED
        BY <2>5, <4>1, <4>2, <4>3
    <3>4. QED
      BY <1>1, <3>1, <3>3 DEF RetiredSpoils
  <2>9. RetiredGood'
    <3>1. ASSUME NEW p \in b \ spoiled
          PROVE  /\ p \in download.copied <=> p \in gpuDirty
                 /\ p \in download.copied => p \in download.good
      <4>1. p \in gpuDirty => p \in gpuRanges
        BY <1>1 DEF WatchInv, Owners, DirtyInRanges
      <4>2. p \in gpuDirty => "buf" \in copies[p]
        BY <1>1, <1>6 DEF WatchInv, WatchersExact, CoherenceInv, Contents, BufferCurrent
      <4>3. QED
        BY <2>1, <4>1, <4>2
    <3>2. ASSUME NEW k \in DOMAIN retired'
          PROVE  \A p \in retired'[k].range \ spoiled :
                    /\ p \in retired'[k].copied <=> p \in gpuDirty
                    /\ p \in retired'[k].copied => p \in retired'[k].good
      <4>1. CASE k \in DOMAIN retired
        BY <1>1, <2>5, <4>1 DEF CoherenceInv, Pending, RetiredGood
      <4>2. CASE k = last
        BY <2>1, <2>5, <3>1, <4>2
      <4>3. QED
        BY <2>5, <4>1, <4>2
    <3>3. QED
      BY <1>1, <3>2 DEF RetiredGood
  <2>10. QED
    BY <1>7, <1>8, <1>9, <2>7, <2>8, <2>9 DEF CoherenceInv, Pending
<1>12. QED
  BY <1>10, <1>11 DEF CollectBuffer

\* A download that ends leaves guest memory current on every page it unmarks.
LEMMA FinishRetiredCoherent ==
    ASSUME WatchInv, CoherenceInv, FinishRetired
    PROVE  CoherenceInv'
<1> DEFINE download == Head(retired)
<1>1. gpu.at \in {"idle", "finish", "stage"} /\ retired # <<>>
  BY DEF FinishRetired
<1>2. download = retired[1] /\ 1 \in DOMAIN retired
  BY <1>1, SeqTypes DEF WatchInv
<1>3. CASE Halt("garbage collection retained GPU ownership")
  BY <1>3, StayCoherent DEF Halt, trackingVars, cacheVars
<1>4. CASE ~Halt("garbage collection retained GPU ownership")
  <2>1. /\ copies' = [p \in Pages |-> CASE p \in download.good -> copies[p] \union {"mem"}
                                        [] p \in download.copied \ download.good ->
                                               copies[p] \ {"mem"}
                                        [] OTHER -> copies[p]]
        /\ gpuRanges' = gpuRanges \ download.copied
        /\ gpuDirty' = gpuDirty \ download.range
        /\ gpu' = [at |-> "untrack", range |-> download.range, back |-> gpu]
        /\ UNCHANGED <<cpuDirty, buffers, retired, images, spoiled>>
    BY <1>4 DEF FinishRetired, UnmarkGpu
  <2>2. ASSUME NEW p \in download.range \ spoiled
        PROVE  /\ p \in download.copied <=> p \in gpuDirty
               /\ p \in download.copied => p \in download.good
    BY <1>1, <1>2, <2>2 DEF CoherenceInv, Pending, RetiredGood
  <2>3. download.copied \subseteq download.range
    BY <1>2 DEF WatchInv, Owners, CopiedInRange
  <2> HIDE DEF download
  <2>4. ASSUME NEW p \in Pages
        PROVE  /\ "buf" \in copies'[p] <=> "buf" \in copies[p]
               /\ \A i \in Images : i \in copies'[p] <=> i \in copies[p]
               /\ p \in download.good => "mem" \in copies'[p]
               /\ p \notin download.good /\ p \notin download.copied => copies'[p] = copies[p]
    <3>1. \A i \in Images : i # "mem"
      BY CoherenceAssumption
    <3>2. QED
      BY <2>1, <3>1
  <2>5. gpu'.at = "untrack" /\ Task = gpu /\ Task' = gpu /\ InUpload = {} /\ InUpload' = {}
    BY <1>1, <2>1 DEF Task, InUpload
  <2>6. Registered' = Registered /\ RetiredPages' = RetiredPages /\ Registered \subseteq Pages
    BY <2>1 DEF Registered, RetiredPages, WatchInv, TypeOK
  <2>7. MemCurrent'
    <3>1. ASSUME NEW p \in Pages \ spoiled, p \notin gpuDirty \/ p \in download.range
          PROVE  "mem" \in copies'[p]
      <4>1. CASE p \in download.good
        BY <2>4, <4>1
      <4>2. CASE p \notin download.good
        <5>1. p \notin download.copied
          BY <2>2, <2>3, <4>2
        <5>2. p \notin gpuDirty
          BY <2>2, <3>1, <5>1
        <5>3. "mem" \in copies[p]
          BY <5>2 DEF CoherenceInv, Contents, MemCurrent
        <5>4. QED
          BY <2>4, <4>2, <5>1, <5>3
      <4>3. QED
        BY <4>1, <4>2
    <3>2. QED
      BY <2>1, <3>1 DEF MemCurrent
  <2>8. BufferCurrent'
    BY <2>1, <2>4, <2>5, <2>6 DEF CoherenceInv, Contents, BufferCurrent
  <2>9. ImageCurrent'
    <3>1. \A i \in Images : ImagePages[i] \subseteq Pages
      BY CoherenceAssumption
    <3>2. QED
      BY <2>1, <2>4, <3>1 DEF CoherenceInv, Contents, ImageCurrent
  <2>10. Work'
    <3>1. TrackedOrDirty' /\ ImageTask' /\ StageOwned'
      BY <2>1, <2>5 DEF CoherenceInv, Work, TrackedOrDirty, ImageTask, StageOwned, Owned
    <3>2. QED
      BY <2>5, <3>1 DEF Work, Staged, UploadImages, GivenCurrent
  <2>11. Pending'
    <3>1. Disjoint' /\ UnownedIsCpu' /\ RetiredSpoils'
      BY <2>1, <2>6 DEF CoherenceInv, Pending, Disjoint, UnownedIsCpu, RetiredSpoils
    <3>2. ASSUME NEW k \in DOMAIN retired, k # 1, NEW p \in retired[k].range \ spoiled
          PROVE  /\ p \in gpuDirty' <=> p \in gpuDirty
                 /\ p \in retired[k].copied <=> p \in gpuDirty
                 /\ p \in retired[k].copied => p \in retired[k].good
      <4>1. p \notin download.range
        BY <1>2, <3>2 DEF CoherenceInv, Pending, RetiredSpoils, download
      <4>2. QED
        BY <1>1, <2>1, <3>2, <4>1 DEF CoherenceInv, Pending, RetiredGood
    <3>3. RetiredGood'
      BY <2>1, <2>5, <3>2 DEF RetiredGood
    <3>4. QED
      BY <3>1, <3>3 DEF Pending
  <2>12. QED
    BY <2>7, <2>8, <2>9, <2>10, <2>11 DEF CoherenceInv, Contents
<1>5. QED
  BY <1>3, <1>4

\* The pages of a finished download become the CPU's.
LEMMA UntrackRetiredCoherent ==
    ASSUME WatchInv, CoherenceInv, UntrackRetired
    PROVE  CoherenceInv'
<1>1. gpu.at = "untrack" /\ gpu \in UntrackTask /\ gpu.back \in Outer /\ gpu' = gpu.back
  BY GpuCases DEF UntrackRetired, UntrackTask, WatchInv
<1>2. retired # <<>> /\ gpu.range = retired[1].range
  BY <1>1 DEF WatchInv, Owners, Untracking
<1>3. /\ UNCHANGED <<gpuDirty, buffers, gpuRanges, images, copies, spoiled>>
      /\ cpuDirty' = cpuDirty \union gpu.range
  BY DEF UntrackRetired, MarkCpu
<1>4. retired \in Seq(Download) /\ retired' = Tail(retired)
  BY DEF UntrackRetired, WatchInv, TypeOK
<1>5. /\ retired' \in Seq(Download) /\ Len(retired') = Len(retired) - 1
      /\ \A k \in 1 .. Len(retired') : retired'[k] = retired[k + 1]
  BY <1>2, <1>4, HeadTailProperties
<1>6. /\ Len(retired) \in Nat /\ DOMAIN retired = 1 .. Len(retired)
      /\ DOMAIN retired' = 1 .. Len(retired) - 1
  BY <1>4, <1>5, LenProperties
<1>7. gpu'.at \in {"idle", "finish", "stage"}
  BY <1>1 DEF Outer, Idle, GiveTask, SourceTask
<1>8. Task = gpu.back /\ Task' = gpu.back /\ InUpload = {} /\ InUpload' = {}
  BY <1>1, <1>7 DEF Task, InUpload
<1>9. \A k \in DOMAIN retired' : k \in Nat /\ k + 1 \in DOMAIN retired /\ k + 1 # 1
                                 /\ retired'[k] = retired[k + 1]
  BY <1>5, <1>6
<1>10. RetiredPages \subseteq RetiredPages' \union gpu.range
  <2>1. ASSUME NEW k \in DOMAIN retired
        PROVE  retired[k].range \subseteq RetiredPages' \union gpu.range
    <3>1. CASE k = 1
      BY <1>2, <3>1
    <3>2. CASE k # 1
      <4>1. k - 1 \in DOMAIN retired' /\ retired'[k - 1] = retired[k]
        BY <1>5, <1>6, <3>2
      <4>2. QED
        BY <4>1 DEF RetiredPages
    <3>3. QED
      BY <3>1, <3>2
  <2>2. QED
    BY <2>1 DEF RetiredPages
<1>11. RetiredPages' \subseteq RetiredPages
  BY <1>9 DEF RetiredPages
<1>12. Contents'
  BY <1>3, <1>8 DEF CoherenceInv, Contents, MemCurrent, BufferCurrent, ImageCurrent, Registered
<1>13. Work'
  <2>1. TrackedOrDirty' /\ ImageTask' /\ StageOwned'
    BY <1>3, <1>8 DEF CoherenceInv, Work, TrackedOrDirty, ImageTask, StageOwned, Owned
  <2>2. QED
    BY <1>7, <2>1 DEF Work, Staged, UploadImages, GivenCurrent
<1>14. Pending'
  <2>0. Registered' = Registered
    BY <1>3 DEF Registered
  <2>1. Disjoint' /\ UnownedIsCpu'
    BY <1>3, <1>10, <2>0 DEF CoherenceInv, Pending, Disjoint, UnownedIsCpu
  <2>2. RetiredSpoils'
    <3>1. ASSUME NEW k \in DOMAIN retired', NEW l \in DOMAIN retired', k # l
          PROVE  retired'[k].range \intersect retired'[l].range \subseteq spoiled
      <4>1. k + 1 # l + 1
        BY <1>9, <3>1
      <4>2. QED
        BY <1>9, <4>1 DEF CoherenceInv, Pending, RetiredSpoils
    <3>2. QED
      BY <1>3, <1>11, <2>0, <3>1 DEF CoherenceInv, Pending, RetiredSpoils
  <2>3. RetiredGood'
    <3>1. ASSUME NEW k \in DOMAIN retired', NEW p \in retired'[k].range \ spoiled
          PROVE  /\ p \in retired'[k].copied <=> p \in gpuDirty
                 /\ p \in retired'[k].copied => p \in retired'[k].good
      <4>1. k + 1 \in DOMAIN retired /\ k + 1 # 1 /\ retired'[k] = retired[k + 1]
        BY <1>9
      <4>2. QED
        BY <3>1, <4>1 DEF CoherenceInv, Pending, RetiredGood
    <3>2. QED
      BY <1>3, <3>1 DEF RetiredGood
  <2>4. QED
    BY <2>1, <2>2, <2>3 DEF Pending
<1>15. QED
  BY <1>12, <1>13, <1>14 DEF CoherenceInv

\* The image watches its pages from here on.
LEMMA RefreshImageCoherent ==
    ASSUME WatchInv, CoherenceInv, NEW i \in Images, RefreshImage(i)
    PROVE  CoherenceInv'
<1>1. /\ gpu.at = "idle" /\ gpu' \in {Idle, [at |-> "image", image |-> i]}
      /\ UNCHANGED <<cpuDirty, gpuDirty, buffers, gpuRanges, retired, copies, spoiled>>
      /\ images' = [images EXCEPT ![i].tracked = TRUE]
  BY DEF RefreshImage, TrackImage, Idle
<1>2. gpu'.at \in {"idle", "image"} /\ (gpu'.at = "image" => gpu'.image = i)
  BY <1>1 DEF Idle
<1>3. Task' = gpu' /\ InUpload = {} /\ InUpload' = {}
  BY <1>1, <1>2 DEF Task, InUpload
<1>4. /\ images'[i].tracked
      /\ \A j \in Images : /\ Clean(images'[j]) => Clean(images[j])
                           /\ images'[j].missed = images[j].missed
                           /\ images'[j].tracked \/ images'[j].cpuDirty
  <2>1. images \in [Images -> ImageState] /\ images[i] \in ImageState
    BY DEF WatchInv, TypeOK
  <2>2. images' = [images EXCEPT ![i] = [images[i] EXCEPT !.tracked = TRUE]]
    BY <1>1
  <2>3. /\ [images[i] EXCEPT !.tracked = TRUE].tracked
        /\ [images[i] EXCEPT !.tracked = TRUE].cpuDirty = images[i].cpuDirty
        /\ [images[i] EXCEPT !.tracked = TRUE].bufferModified = images[i].bufferModified
        /\ [images[i] EXCEPT !.tracked = TRUE].missed = images[i].missed
    BY <2>1 DEF ImageState
  <2>4. \A j \in Images \ {i} : images'[j] = images[j]
    BY <2>1, <2>2
  <2>5. QED
    BY <2>1, <2>2, <2>3, <2>4 DEF Clean, CoherenceInv, Work, TrackedOrDirty
<1>5. Contents'
  BY <1>1, <1>3, <1>4 DEF CoherenceInv, Contents, MemCurrent, BufferCurrent, ImageCurrent, Registered
<1>6. Work'
  BY <1>2, <1>3, <1>4 DEF Work, TrackedOrDirty, ImageTask, StageOwned, Staged, UploadImages,
                          GivenCurrent
<1>7. Pending'
  BY <1>1, <1>2 DEF CoherenceInv, Pending, Disjoint, UnownedIsCpu, RetiredSpoils, RetiredGood,
                    Registered, RetiredPages
<1>8. QED
  BY <1>5, <1>6, <1>7 DEF CoherenceInv

\* A dropped image is dirty.
LEMMA DeleteImageCoherent ==
    ASSUME WatchInv, CoherenceInv, NEW i \in Images, DeleteImage(i)
    PROVE  CoherenceInv'
<1>1. /\ gpu.at = "idle" /\ gpu' = gpu
      /\ UNCHANGED <<cpuDirty, gpuDirty, buffers, gpuRanges, retired, copies, spoiled>>
      /\ images' = [images EXCEPT ![i] = NewImage]
  BY DEF DeleteImage, Idle
<1>2. Task' = gpu' /\ InUpload = {} /\ InUpload' = {}
  BY <1>1 DEF Task, InUpload
<1>3. \A j \in Images : /\ Clean(images'[j]) => images'[j] = images[j]
                        /\ images'[j].tracked \/ images'[j].cpuDirty
  <2>1. \A j \in Images : images'[j] = IF j = i THEN NewImage ELSE images[j]
    BY <1>1 DEF WatchInv, TypeOK
  <2>2. NewImage.cpuDirty /\ ~Clean(NewImage)
    BY DEF Clean, NewImage
  <2>3. \A j \in Images : images[j].tracked \/ images[j].cpuDirty
    BY DEF CoherenceInv, Work, TrackedOrDirty
  <2>4. QED
    BY <2>1, <2>2, <2>3, Zenon
<1>4. Contents'
  BY <1>1, <1>2, <1>3 DEF CoherenceInv, Contents, MemCurrent, BufferCurrent, ImageCurrent, Registered
<1>5. Work'
  BY <1>1, <1>2, <1>3, WorkRests DEF TrackedOrDirty
<1>6. Pending'
  BY <1>1 DEF CoherenceInv, Pending, Disjoint, UnownedIsCpu, RetiredSpoils, RetiredGood,
              Registered, RetiredPages
<1>7. QED
  BY <1>4, <1>5, <1>6 DEF CoherenceInv

\* The image takes its pages from a place that is current on them, and is clean then.
LEMMA ImageTakesFacts ==
    ASSUME WatchInv, NEW i \in Images,
           images' = [images EXCEPT ![i] = Refreshed(@)],
           CoherenceInv, images[i].tracked,
           \A p \in ImagePages[i] \ spoiled' : i \in copies'[p],
           \A p \in Pages : \A j \in Images \ {i} : j \in copies[p] => j \in copies'[p],
           spoiled \subseteq spoiled'
    PROVE  ImageCurrent' /\ TrackedOrDirty'
<1>1. /\ \A j \in Images : images'[j].tracked = images[j].tracked
      /\ \A j \in Images \ {i} : images'[j] = images[j]
  BY ImageCleanFacts DEF WatchInv
<1>2. TrackedOrDirty'
  BY <1>1 DEF CoherenceInv, Work, TrackedOrDirty
<1>3. \A j \in Images : ImagePages[j] \subseteq Pages
  BY CoherenceAssumption
<1>4. ASSUME NEW j \in Images, Clean(images'[j]), NEW p \in ImagePages[j] \ spoiled'
      PROVE  p \in images'[j].missed \/ j \in copies'[p]
  <2>1. CASE j = i
    BY <1>4, <2>1
  <2>2. CASE j # i
    BY <1>1, <1>3, <1>4, <2>2 DEF CoherenceInv, Contents, ImageCurrent
  <2>3. QED
    BY <2>1, <2>2
<1>5. QED
  BY <1>2, <1>4 DEF ImageCurrent

\* A buffer with all of the pages is current on them; otherwise the image will be staged.
LEMMA ImageSourceCoherent ==
    ASSUME WatchInv, CoherenceInv, ImageSource
    PROVE  CoherenceInv'
<1>0. gpu.at = "image" /\ gpu \in SourceTask /\ gpu.image \in Images /\ Task = gpu
  BY GpuCases DEF ImageSource, SourceTask, WatchInv, Task
<1> PICK i \in Images : i = gpu.image
  BY <1>0
<1> DEFINE range == ImagePages[i]
           dirty == range \intersect gpuRanges # {}
<1>1. gpu.at = "image" /\ gpu \in SourceTask /\ i = gpu.image /\ range \in SUBSET Pages /\ Task = gpu
  BY <1>0, CoherenceAssumption
<1>2. images[i].tracked
  BY <1>1 DEF CoherenceInv, Work, ImageTask
<1>3. CASE Halt("GPU-dirty image source has no native buffer")
  BY <1>3, StayCoherent DEF Halt, trackingVars, cacheVars
<1>4. ASSUME IF dirty THEN GetOrCreateBuffer(range) ELSE UNCHANGED <<buffers, spoiled>>,
             UNCHANGED <<trackingVars, gpuRanges, retired>>, gpu'.at \in {"idle", "stage"}
      PROVE  /\ Pending' /\ (dirty => Owned(range)') /\ (Owned(range) => range \subseteq Registered')
             /\ spoiled \subseteq spoiled' /\ (dirty => range \subseteq Registered')
             /\ \A p \in Registered' : p \in cpuDirty \union spoiled' \/ "buf" \in copies[p]
             /\ UNCHANGED <<cpuDirty, gpuDirty>> /\ InUpload' = {} /\ Task' = gpu'
             /\ Registered' \subseteq Pages
  <2>0. UNCHANGED <<cpuDirty, gpuDirty, retired>> /\ gpu'.at \notin {"upload", "untrack"}
    BY <1>4 DEF trackingVars
  <2>1. /\ Disjoint' /\ RetiredSpoils' /\ RetiredGood' /\ (dirty => Owned(range)')
        /\ spoiled \subseteq spoiled' /\ Registered \subseteq Registered'
        /\ (dirty => range \subseteq Registered')
        /\ \A p \in Registered' : p \in cpuDirty \union spoiled' \/ "buf" \in copies[p]
        /\ Registered' \subseteq Pages
    <3>1. CASE dirty
      <4>1. GetOrCreateBuffer(range)
        BY <1>4, <3>1
      <4>2. Registered' \subseteq Pages
        BY <1>1, <4>1, GetOrCreateBufferFacts DEF Registered, WatchInv
      <4> HIDE DEF range
      <4>3. QED
        BY <1>1, <2>0, <4>1, <4>2, BufferMade
    <3>2. CASE ~dirty
      <4>1. UNCHANGED <<buffers, spoiled>>
        BY <1>4, <3>2
      <4>2. Registered' = Registered /\ RetiredPages' = RetiredPages /\ Registered \subseteq Pages
        BY <2>0, <4>1 DEF Registered, RetiredPages, WatchInv, TypeOK
      <4>3. Disjoint' /\ RetiredSpoils' /\ RetiredGood'
        BY <1>1, <2>0, <4>1, <4>2 DEF CoherenceInv, Pending, Disjoint, RetiredSpoils, RetiredGood
      <4>4. InUpload = {}
        BY <1>1 DEF InUpload
      <4>5. \A p \in Registered' : p \in cpuDirty \union spoiled' \/ "buf" \in copies[p]
        BY <4>1, <4>2, <4>4 DEF CoherenceInv, Contents, BufferCurrent
      <4>6. QED
        BY <3>2, <4>1, <4>2, <4>3, <4>5
    <3>3. QED
      BY <3>1, <3>2
  <2>2. UnownedIsCpu'
    <3>1. RetiredPages' = RetiredPages
      BY <2>0 DEF RetiredPages
    <3>2. QED
      BY <2>0, <2>1, <3>1 DEF CoherenceInv, Pending, UnownedIsCpu
  <2>3. Owned(range) => range \subseteq Registered'
    BY <2>1 DEF Owned, Registered
  <2>4. InUpload' = {} /\ Task' = gpu'
    BY <2>0 DEF InUpload, Task
  <2>5. QED
    BY <2>0, <2>1, <2>2, <2>3, <2>4 DEF Pending
<1>5. CASE /\ IF dirty THEN GetOrCreateBuffer(range) ELSE UNCHANGED <<buffers, spoiled>>
           /\ dirty \/ Owned(range)
           /\ range \intersect cpuDirty = {}
           /\ ImageTakes(i, copies, "buf")
           /\ UNCHANGED <<trackingVars, gpuRanges, retired, cpu, commands, halted>>
  <2>1. gpu'.at = "idle" /\ copies' = CopyPages(copies, range, "buf", i)
        /\ images' = [images EXCEPT ![i] = Refreshed(@)]
    BY <1>5 DEF ImageTakes, Idle
  <2>2. /\ Pending' /\ range \subseteq Registered' /\ spoiled \subseteq spoiled'
        /\ \A p \in Registered' : p \in cpuDirty \union spoiled' \/ "buf" \in copies[p]
        /\ UNCHANGED <<cpuDirty, gpuDirty>> /\ InUpload' = {} /\ Task' = gpu'
        /\ Registered' \subseteq Pages
    BY <1>4, <1>5, <2>1
  <2>3. range \intersect cpuDirty = {}
    BY <1>5
  <2> HIDE DEF range, dirty
  <2>4. ASSUME NEW p \in Pages
        PROVE  /\ "mem" \in copies[p] => "mem" \in copies'[p]
               /\ "buf" \in copies[p] => "buf" \in copies'[p]
               /\ \A j \in Images \ {i} : j \in copies[p] => j \in copies'[p]
               /\ p \in range /\ "buf" \in copies[p] => i \in copies'[p]
    <3>1. i \notin {"mem", "buf"}
      BY <1>1, CoherenceAssumption
    <3>2. QED
      BY <2>1, <3>1 DEF CopyPages
  <2>5. \A p \in ImagePages[i] \ spoiled' : i \in copies'[p]
    BY <1>1, <2>2, <2>3, <2>4 DEF range
  <2>6. ImageCurrent' /\ TrackedOrDirty'
    BY <1>1, <1>2, <2>1, <2>2, <2>4, <2>5, ImageTakesFacts
  <2>7. MemCurrent' /\ BufferCurrent'
    BY <2>2, <2>4 DEF CoherenceInv, Contents, MemCurrent, BufferCurrent
  <2>8. Work'
    BY <2>1, <2>2, <2>6, WorkRests
  <2>9. QED
    BY <2>2, <2>6, <2>7, <2>8 DEF CoherenceInv, Contents
<1>6. CASE /\ IF dirty THEN GetOrCreateBuffer(range) ELSE UNCHANGED <<buffers, spoiled>>
           /\ gpu' = [gpu EXCEPT !.at = "stage"] /\ UNCHANGED <<copies, images>>
           /\ UNCHANGED <<trackingVars, gpuRanges, retired, cpu, commands, halted>>
  <2>1. gpu'.at = "stage" /\ gpu'.image = i /\ UNCHANGED <<copies, images, gpuRanges>>
    BY <1>1, <1>6 DEF SourceTask
  <2>2. /\ Pending' /\ (dirty => Owned(range)') /\ spoiled \subseteq spoiled'
        /\ \A p \in Registered' : p \in cpuDirty \union spoiled' \/ "buf" \in copies[p]
        /\ UNCHANGED <<cpuDirty, gpuDirty>> /\ InUpload' = {} /\ Task' = gpu'
    BY <1>4, <1>6, <2>1
  <2>3. Contents'
    BY <2>1, <2>2 DEF CoherenceInv, Contents, MemCurrent, BufferCurrent, ImageCurrent
  <2>4. StageOwned'
    <3>1. dirty \/ ImagePages[i] \intersect gpuRanges = {}
      OBVIOUS
    <3>2. dirty => Owned(ImagePages[i])'
      BY <2>2 DEF Owned
    <3> HIDE DEF dirty, range
    <3>3. QED
      BY <2>1, <2>2, <3>1, <3>2 DEF StageOwned, Owned
  <2>5. Work'
    BY <1>2, <2>1, <2>2, <2>4 DEF CoherenceInv, Work, TrackedOrDirty, ImageTask, Staged,
                                  UploadImages, GivenCurrent
  <2>6. QED
    BY <2>2, <2>3, <2>5 DEF CoherenceInv
<1>7. QED
  BY <1>3, <1>5, <1>6 DEF ImageSource

\* The pages that the GPU does not own are current in guest memory.
LEMMA StageImageCoherent ==
    ASSUME WatchInv, CoherenceInv, StageImage
    PROVE  CoherenceInv'
<1>1. gpu.at = "stage" /\ gpu \in SourceTask /\ gpu.image \in Images /\ Task = gpu
  BY GpuCases DEF StageImage, SourceTask, WatchInv, Task
<1>2. ImagePages[gpu.image] \subseteq Pages
  BY <1>1, CoherenceAssumption
<1>3. /\ UNCHANGED <<cpuDirty, gpuDirty, buffers, gpuRanges, retired, images, copies, spoiled>>
      /\ gpu'.at = "staged" /\ gpu'.image = gpu.image
      /\ gpu'.good = {p \in ImagePages[gpu.image] : "mem" \in copies[p]}
  BY DEF StageImage, trackingVars, cacheVars
<1>4. Task' = gpu' /\ InUpload = {} /\ InUpload' = {}
  BY <1>1, <1>3 DEF Task, InUpload
<1>5. Contents'
  BY <1>3, <1>4 DEF CoherenceInv, Contents, MemCurrent, BufferCurrent, ImageCurrent, Registered
<1>6. TrackedOrDirty' /\ ImageTask' /\ StageOwned'
  BY <1>1, <1>3, <1>4 DEF CoherenceInv, Work, TrackedOrDirty, ImageTask, StageOwned, Owned
<1>7. Staged'
  BY <1>2, <1>3 DEF Staged, CoherenceInv, Contents, MemCurrent
<1>8. Work'
  BY <1>3, <1>6, <1>7 DEF Work, UploadImages, GivenCurrent
<1>9. Pending'
  BY <1>1, <1>3 DEF CoherenceInv, Pending, Disjoint, UnownedIsCpu, RetiredSpoils, RetiredGood,
                    Registered, RetiredPages
<1>10. QED
  BY <1>5, <1>8, <1>9 DEF CoherenceInv

\* Without a buffer every page of the image was staged from current memory; with one, the
\* pages that the CPU wrote were, and the buffer has the others.
LEMMA UploadStagedCoherent ==
    ASSUME WatchInv, CoherenceInv, UploadStaged
    PROVE  CoherenceInv'
<1>0. gpu.at = "staged" /\ gpu \in StagedTask /\ gpu.image \in Images /\ Task = gpu
  BY GpuCases DEF UploadStaged, StagedTask, WatchInv, Task
<1> PICK i \in Images : i = gpu.image
  BY <1>0
<1> PICK good : good = gpu.good
  OBVIOUS
<1> DEFINE range == ImagePages[i]
           dirty == range \intersect gpuRanges # {}
<1>1. range \subseteq Pages /\ i \notin {"mem", "buf"} /\ images[i].tracked
  BY <1>0, CoherenceAssumption DEF CoherenceInv, Work, ImageTask
<1>2. gpu'.at = "idle" /\ UNCHANGED <<gpuDirty, buffers, gpuRanges, retired, spoiled>>
      /\ images' = [images EXCEPT ![i] = Refreshed(@)]
  BY DEF UploadStaged, ImageTakes, Idle, trackingVars
<1>3. Task' = gpu' /\ InUpload = {} /\ InUpload' = {}
  BY <1>0, <1>2 DEF Task, InUpload
<1>4. /\ \A p \in range \ (spoiled \union gpuDirty) : p \in good
      /\ Owned(range) \/ range \intersect gpuRanges = {}
      /\ gpuDirty \subseteq gpuRanges /\ cpuDirty \intersect gpuDirty = {}
  BY <1>0 DEF CoherenceInv, Work, Staged, StageOwned, WatchInv, WatchersExact, Owners, DirtyInRanges
<1>5. Registered' = Registered /\ RetiredPages' = RetiredPages /\ Registered \subseteq Pages
  BY <1>2 DEF Registered, RetiredPages, WatchInv, TypeOK
<1>6. Disjoint' /\ RetiredSpoils' /\ RetiredGood'
  BY <1>0, <1>2, <1>5 DEF CoherenceInv, Pending, Disjoint, RetiredSpoils, RetiredGood
<1>7. CASE /\ ~Owned(range) \/ (range \intersect gpuDirty # {} /\ ~dirty)
           /\ copies' = StagedPages(copies, range, good, i)
           /\ UNCHANGED trackingVars
  <2>1. \A p \in range \ spoiled : p \in good
    BY <1>4, <1>7
  <2> HIDE DEF range, dirty
  <2>2. ASSUME NEW p \in Pages
        PROVE  /\ "mem" \in copies[p] => "mem" \in copies'[p]
               /\ "buf" \in copies[p] => "buf" \in copies'[p]
               /\ \A j \in Images \ {i} : j \in copies[p] => j \in copies'[p]
               /\ p \in range /\ p \in good => i \in copies'[p]
    BY <1>1, <1>7 DEF StagedPages
  <2>3. \A p \in ImagePages[i] \ spoiled' : i \in copies'[p]
    BY <1>1, <1>2, <2>1, <2>2 DEF range
  <2>4. ImageCurrent' /\ TrackedOrDirty'
    BY <1>1, <1>2, <2>2, <2>3, ImageTakesFacts
  <2>5. UNCHANGED <<cpuDirty, gpuDirty>>
    BY <1>7 DEF trackingVars
  <2>6. MemCurrent' /\ BufferCurrent'
    BY <1>2, <1>3, <1>5, <2>2, <2>5 DEF CoherenceInv, Contents, MemCurrent, BufferCurrent
  <2>7. UnownedIsCpu'
    BY <1>5, <2>5 DEF CoherenceInv, Pending, UnownedIsCpu
  <2>8. Work'
    BY <1>2, <1>3, <2>4, WorkRests
  <2>9. QED
    BY <1>6, <2>4, <2>6, <2>7, <2>8 DEF CoherenceInv, Contents, Pending
<1>8. CASE /\ Owned(range) /\ ClearCpu(range)
           /\ copies' = CopyPages(StagedPages(copies, range \intersect cpuDirty, good, "buf"),
                                  range, "buf", i)
  <2> DEFINE filled == StagedPages(copies, range \intersect cpuDirty, good, "buf")
  <2>1. cpuDirty' = cpuDirty \ range /\ range \subseteq Registered
    BY <1>8 DEF ClearCpu, Owned, Registered
  <2>2. copies' = CopyPages(filled, range, "buf", i)
    BY <1>8
  <2>3. \A p \in (range \intersect cpuDirty) \ spoiled : p \in good
    BY <1>4
  <2>4. \A p \in range \ (spoiled \union cpuDirty) : "buf" \in copies[p]
    BY <1>3, <2>1 DEF CoherenceInv, Contents, BufferCurrent
  <2> HIDE DEF range, dirty
  <2>5. ASSUME NEW p \in Pages
        PROVE  /\ "mem" \in filled[p] <=> "mem" \in copies[p]
               /\ \A j \in Images : j \in filled[p] <=> j \in copies[p]
               /\ p \notin range => filled[p] = copies[p]
               /\ p \in range \ spoiled => "buf" \in filled[p]
    <3>1. \A j \in Images : j # "buf"
      BY CoherenceAssumption
    <3>2. p \in range \ spoiled => "buf" \in filled[p]
      BY <2>3, <2>4 DEF StagedPages
    <3>3. QED
      BY <3>1, <3>2 DEF StagedPages
  <2> HIDE DEF filled
  <2>6. ASSUME NEW p \in Pages
        PROVE  /\ "mem" \in copies'[p] <=> "mem" \in copies[p]
               /\ \A j \in Images \ {i} : j \in copies[p] => j \in copies'[p]
               /\ p \notin range => copies'[p] = copies[p]
               /\ p \in range \ spoiled => "buf" \in copies'[p] /\ i \in copies'[p]
    BY <1>1, <2>2, <2>5 DEF CopyPages
  <2>7. \A p \in ImagePages[i] \ spoiled' : i \in copies'[p]
    BY <1>1, <1>2, <2>6 DEF range
  <2>8. ImageCurrent' /\ TrackedOrDirty'
    BY <1>1, <1>2, <2>6, <2>7, ImageTakesFacts
  <2>9. MemCurrent'
    BY <1>2, <2>6 DEF CoherenceInv, Contents, MemCurrent
  <2>10. BufferCurrent'
    BY <1>2, <1>3, <1>5, <2>1, <2>6 DEF CoherenceInv, Contents, BufferCurrent
  <2>11. UnownedIsCpu'
    BY <1>5, <2>1 DEF CoherenceInv, Pending, UnownedIsCpu
  <2>12. Work'
    BY <1>2, <1>3, <2>8, WorkRests
  <2>13. QED
    BY <1>6, <2>8, <2>9, <2>10, <2>11, <2>12 DEF CoherenceInv, Contents, Pending
<1>9. QED
  BY <1>7, <1>8 DEF UploadStaged, ImageTakes, StagedPages

\* Every step keeps both invariants.
LEMMA CoherenceStep ==
    ASSUME WatchInv, CoherenceInv, [CoherenceNext]_coherenceVars
    PROVE  CoherenceInv'
<1>1. CASE UNCHANGED coherenceVars
  BY <1>1, StayCoherent DEF coherenceVars, trackingVars, cacheVars
<1>2. CASE CoherenceNext
  <2>1. ASSUME NEW c \in Cpus, NEW p \in Pages, CpuWrite(c, p) PROVE CoherenceInv'
    BY <2>1, CpuWriteCoherent
  <2>2. ASSUME NEW c \in Cpus, NEW p \in Pages, NEW write \in BOOLEAN,
               CpuFault(c, p, write) \/ CpuInvalidate(c, p) \/ CpuUnmap(c, p)
        PROVE  CoherenceInv'
    BY <2>2, CpuStartsCoherent
  <2>3. ASSUME NEW c \in Cpus, HandleFault(c) \/ InvalidateBuffers(c)
        PROVE  CoherenceInv'
    BY <2>3, CpuFaultsCoherent
  <2>4. ASSUME NEW c \in Cpus, InvalidateTextures(c) PROVE CoherenceInv'
    BY <2>4, InvalidateTexturesCoherent
  <2>5. ASSUME NEW range \in Ranges, NEW written \in BOOLEAN, NEW formatted \in BOOLEAN,
               ObtainBuffer(range, written, formatted)
        PROVE  CoherenceInv'
    <3>1. range \in SUBSET Pages
      BY DEF Ranges
    <3>2. QED
      BY <2>5, <3>1, ObtainBufferCoherent
  <2>6. ASSUME NEW p \in Pages, WriteHostMemory(p) PROVE CoherenceInv'
    BY <2>6, WriteHostMemoryCoherent
  <2>7. CASE Upload \/ ReadMemory \/ UnmapMemory \/ Publish \/ UnmarkRange \/ MarkRange \/ Erase
    BY <2>7, UploadCoherent, ReadMemoryCoherent, UnmapMemoryCoherent, PublishCoherent,
       UnmarkRangeCoherent, MarkRangeCoherent, EraseCoherent
  <2>8. ASSUME NEW b \in buffers, CollectBuffer(b) PROVE CoherenceInv'
    BY <2>8, CollectBufferCoherent
  <2>9. CASE FinishRetired \/ UntrackRetired \/ ImageSource \/ StageImage \/ UploadStaged
    BY <2>9, FinishRetiredCoherent, UntrackRetiredCoherent, ImageSourceCoherent,
       StageImageCoherent, UploadStagedCoherent
  <2>10. ASSUME NEW i \in Images, RefreshImage(i) \/ DeleteImage(i) PROVE CoherenceInv'
    BY <2>10, RefreshImageCoherent, DeleteImageCoherent
  <2>11. CASE ReenterUpload
    BY <2>11, StayCoherent DEF ReenterUpload, Halt, trackingVars, cacheVars
  <2>12. TRUE \in BOOLEAN /\ FALSE \in BOOLEAN
    OBVIOUS
  <2>13. QED
    BY <1>2, <2>1, <2>2, <2>3, <2>4, <2>5, <2>6, <2>7, <2>8, <2>9, <2>10, <2>11, <2>12
       DEF CoherenceNext
<1>3. QED
  BY <1>1, <1>2

\* No write is lost between guest memory, buffers and images: a page a guest thread can read
\* holds its last value, a page of a buffer is current unless the CPU wrote it or its upload
\* is under way, and a clean image is current, for any number of pages, images and threads.
\* It says nothing of pages used while the download of their dropped buffer was pending, and
\* nothing of the pages of a clean image that the GPU has written through an unformatted
\* buffer: the code leaves the image stale there.
THEOREM CoherentHolds == CoherenceSpec => []Coherent
<1> DEFINE Inv == WatchInv /\ CoherenceInv
<1>1. CoherenceInit => Inv
  BY WatchInit, CoherenceStart
<1>2. Inv /\ [CoherenceNext]_coherenceVars => Inv'
  BY WatchStep, CoherenceStep
<1>3. Inv => Coherent
  BY CoherenceInvIsCoherent
<1>4. QED
  BY <1>1, <1>2, <1>3, PTL DEF CoherenceSpec


==============================================================================
