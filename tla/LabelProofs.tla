---------------------------- MODULE LabelProofs ----------------------------
(***************************************************************************)
(* Proofs about AnnotationEditor: nothing a row of samples.jsonl refers to is  *)
(* lost, a deletion is all or nothing, and a save overwrites nothing the tab   *)
(* has not seen; for every number of tabs, images, rows, failures and kills.   *)
(* About TrialInputs: the depth frame of an image is the nearest one, for      *)
(* every length of the buffer and every run of frames; what is labelled is     *)
(* what stands on the board, for every number of rails and ports; a plan keeps  *)
(* its clearance and its order, for all arguments that are accepted.           *)
(***************************************************************************)
EXTENDS MCLabels, FiniteSetTheorems, SequenceTheorems, TLAPS

-----------------------------------------------------------------------------
(* The types of the editor's state                                            *)

Lines == (UNION Labels) \cup Missing \cup Pixels
Contents == SUBSET Lines
PartNames == {"image", "label"}
File == [here : Contents, staged : Contents]
Rests == {<<"image", "label">>, <<"label">>, <<>>}
Elements(r) == {r[k] : k \in DOMAIN r}

Requests ==
    {Idle}
    \cup [op : {"load", "delete"}, tab : Tabs, index : Nat]
    \cup [op : {"save"}, tab : Tabs, index : Nat, revision : Contents, draft : Contents]
    \cup [op : {"revision"}, tab : Tabs, index : Nat, image : Images, shown : Contents]
    \cup [op : {"replace"}, tab : Tabs, index : Nat, image : Images, draft : Contents]
    \cup [op : {"stage", "unlink"}, index : Nat, tab : Tabs, image : Images,
          rows : Seq(SUBSET Images), rest : Rests, staged : SUBSET PartNames]

EditorTypeOK ==
    /\ file \in [Images -> [PartNames -> File]]
    /\ samples \in Seq(SUBSET Images)
    /\ server \in [up : BOOLEAN, entries : Seq(Images)]
    /\ request \in Requests
    /\ tab \in [Tabs -> [index : Nat, revision : Contents, shown : Contents, draft : Contents]]
    /\ captured \in 0 .. Len(Captures)
    /\ late \subseteq Images /\ broken \subseteq Images
    /\ server.up \/ request = Idle
    /\ request.op \in {"stage", "unlink"} => request.index \in DOMAIN server.entries

-----------------------------------------------------------------------------
(* Nothing is lost                                                            *)

\* A file stands under its name or under its .deleting name.
Has(i, p) == file[i][p].here # Missing \/ file[i][p].staged # Missing
Refer(table, i) == \E r \in DOMAIN table : i \in table[r]

\* What is written to a label is a set of lines, never the absence of one.
IsLabel(c) == c = Missing \/ c \subseteq UNION Labels
DraftsOK ==
    /\ \A i \in Images : IsLabel(file[i]["label"].here) /\ IsLabel(file[i]["label"].staged)
    /\ \A t \in Tabs : \/ tab[t].index # 0 /\ tab[t].draft \subseteq UNION Labels
                       \/ tab[t].draft = tab[t].shown
    /\ request.op \in {"save", "replace"} => request.draft \subseteq UNION Labels
    /\ request.op = "revision" => request.shown \subseteq UNION Labels

\* Every row that is, and every row a deletion is about to write, has its files;
\* what a deletion has staged is there, and once the row is gone it removes only that.
RowsHave(table) == \A i \in Images, p \in PartNames : Refer(table, i) => Has(i, p)
StagingOK ==
    /\ request.op = "stage" =>
         /\ \A p \in request.staged : file[request.image][p].staged # Missing
         /\ RowsHave(request.rows) /\ ~Refer(request.rows, request.image)
    /\ request.op = "unlink" /\ Refer(samples, request.image) =>
         \A p \in PartNames : file[request.image][p].here # Missing

KeptInv == EditorTypeOK /\ DraftsOK /\ RowsHave(samples) /\ StagingOK

-----------------------------------------------------------------------------
(* All or nothing                                                             *)

AllRows == Rows \o Captures

\* No two rows refer to one image.
OwnImages == \A r, s \in DOMAIN AllRows : r # s => AllRows[r] \cap AllRows[s] = {}

\* An image of a row the collector has not appended yet.
Future(i) == \E r \in DOMAIN Captures : r > captured /\ i \in Captures[r]

Whole(i) == \A p \in PartNames : file[i][p].here # Missing /\ file[i][p].staged = Missing
Gone(i)  == \A p \in PartNames : file[i][p].here = Missing
Once(table, i) == \E r \in DOMAIN table : \A s \in DOMAIN table : i \in table[s] <=> s = r

\* Nothing is there of a capture yet to come.
FutureOK ==
    \A i \in Images : Future(i) =>
      /\ \A p \in PartNames : file[i][p] = [here |-> Missing, staged |-> Missing]
      /\ ~Refer(samples, i) /\ i \notin late
      /\ \A k \in DOMAIN server.entries : server.entries[k] # i
      /\ request.op \in {"revision", "replace", "stage", "unlink"} => request.image # i
      /\ request.op = "stage" => ~Refer(request.rows, i)

Deleting == request.op \in {"stage", "unlink"}
Consistent(table, i) ==
    \/ Whole(i) /\ (i \in late \/ Once(table, i))
    \/ Gone(i) /\ ~Refer(table, i)

Remaining == Elements(request.rest)

\* What is not being deleted is consistent, also with the rows about to be written;
\* of what is, the files not yet staged are as they were.
DeletionOK ==
    /\ \A i \in Images \ broken : ~(Deleting /\ request.image = i) => Consistent(samples, i)
    /\ request.op = "stage" =>
         \A i \in Images \ broken : request.image # i => Consistent(request.rows, i)
    /\ request.op = "stage" /\ request.image \notin broken =>
         /\ request.image \in late \/ Once(samples, request.image)
         /\ request.staged = PartNames \ Remaining
         /\ \A p \in Remaining : /\ file[request.image][p].here # Missing
                                 /\ file[request.image][p].staged = Missing
         /\ \A p \in request.staged : file[request.image][p].here = Missing
    /\ request.op = "unlink" /\ request.image \notin broken =>
         Gone(request.image) /\ ~Refer(samples, request.image)

\* The list holds no image twice, and none that is gone but for the one being deleted
\* and those of a failed restore; nor is such an image loaded or saved.
Distinct(s) == \A a, b \in DOMAIN s : s[a] = s[b] => a = b
EntriesOK ==
    /\ Distinct(server.entries)
    /\ Deleting => server.entries[request.index] = request.image
    /\ \A k \in DOMAIN server.entries :
         \/ server.entries[k] \in broken \/ (Deleting /\ server.entries[k] = request.image)
         \/ Exists(server.entries[k], "image")
    /\ request.op \in {"revision", "replace"} =>
         request.image \in broken \/ Exists(request.image, "image")

DeletionInv == KeptInv /\ FutureOK /\ DeletionOK /\ EntriesOK

-----------------------------------------------------------------------------
(* Nothing unseen is overwritten                                              *)

Clean(c) == c \cap Malformed = {}

\* A tab shows what could be read of the revision it has, and so does a request on
\* its way to become one, unless another process has relabelled the image in between.
ShownOK ==
    /\ \A t \in Tabs :
         /\ tab[t].index # 0 => tab[t].shown = Readable(tab[t].revision) \/ t \in raced
         /\ tab[t].index # 0 => Clean(tab[t].draft) /\ Clean(tab[t].shown)
         /\ tab[t].index = 0 => tab[t].draft = tab[t].shown
    /\ request.op = "save" =>
         /\ tab[request.tab].index # 0 /\ request.revision = tab[request.tab].revision
         /\ Clean(request.draft)
    /\ request.op = "replace" =>
         /\ tab[request.tab].index # 0
         /\ file[request.image]["label"].here = tab[request.tab].revision \/ request.tab \in raced
         /\ Clean(request.draft) /\ request.draft \cap Flat = {} /\ request.index # 0
    /\ request.op = "revision" =>
         /\ request.shown = Readable(file[request.image]["label"].here) \/ request.tab \in raced
         /\ request.index # 0 /\ Clean(request.shown)

-----------------------------------------------------------------------------
(* What Kept keeps                                                            *)

\* Induction over a finite set: among its subsets with some property one is smallest,
\* which has the property while none of its proper subsets does.
LEMMA Smallest ==
    ASSUME NEW S, IsFiniteSet(S), NEW B \in SUBSET (SUBSET S), B # {}
    PROVE  \E s \in B : \A t \in B : t \subseteq s => t = s
<1>1. IsWellFoundedOn(StrictSubsetOrdering(S), FiniteSubsetsOf(S))
  BY FS_StrictSubsetOrderingWellFounded
<1>2. B \subseteq FiniteSubsetsOf(S)
  BY FS_FiniteSubsetsOfFinite
<1>3. PICK s \in B : \A t \in B : ~ (<<t, s>> \in StrictSubsetOrdering(S))
  BY <1>1, <1>2, WFMin
<1> QED BY <1>3 DEF StrictSubsetOrdering

\* A finite set of integers that is not empty has a largest element, which Max is.
LEMMA MaxIsLargest ==
    ASSUME NEW S, \A x \in S : x \in Int, IsFiniteSet(S), S # {}
    PROVE  Max(S) \in S /\ \A y \in S : Max(S) >= y
<1> DEFINE L(u) == \E x \in u : \A y \in u : x >= y
           B == {u \in SUBSET S : u # {} /\ ~ L(u)}
<1>1. B = {}
  <2> SUFFICES ASSUME B # {} PROVE FALSE
    OBVIOUS
  <2>1. PICK u \in B : \A t \in B : t \subseteq u => t = u
    <3> HIDE DEF B
    <3>1. B \in SUBSET (SUBSET S)
      BY DEF B
    <3> QED BY <3>1, Smallest
  <2>2. PICK x \in u : TRUE
    BY <2>1
  <2>3. u \ {x} = {} \/ L(u \ {x})
    <3> DEFINE v == u \ {x}
    <3>1. v \subseteq u /\ v # u /\ v \in SUBSET S
      BY <2>1, <2>2
    <3>2. v \notin B
      <4> HIDE DEF v, B
      <4> QED BY <2>1, <3>1
    <3> HIDE DEF v, L
    <3>3. v = {} \/ L(v)
      BY <3>1, <3>2
    <3> QED BY <3>3 DEF v
  <2>4. CASE u \ {x} = {}
    <3>1. \A y \in u : x >= y
      BY <2>1, <2>2, <2>4
    <3> QED BY <2>1, <2>2, <3>1
  <2>5. CASE L(u \ {x})
    <3>1. PICK z \in u \ {x} : \A y \in u \ {x} : z >= y
      BY <2>5
    <3>2. x \in Int /\ z \in Int
      BY <2>1, <2>2, <3>1
    <3>3. CASE z >= x
      <4>1. \A y \in u : z >= y
        BY <3>1, <3>3
      <4> QED BY <2>1, <3>1, <4>1
    <3>4. CASE ~(z >= x)
      <4>1. \A y \in u : x >= y
        <5> TAKE y \in u
        <5>1. CASE y = x
          BY <3>2, <5>1
        <5>2. CASE y # x
          <6>1. z >= y /\ y \in Int
            BY <2>1, <3>1, <5>2
          <6> QED BY <3>2, <3>4, <6>1
        <5> QED BY <5>1, <5>2
      <4> QED BY <2>1, <2>2, <4>1
    <3> QED BY <3>3, <3>4
  <2> QED BY <2>3, <2>4, <2>5
<1>2. L(S)
  BY <1>1
<1> QED BY <1>2 DEF Max

\* A function from sets of positions to what is kept of them, by recursion over the
\* last of them.
Keeps(s, keep, S, g) ==
    g = [u \in SUBSET S |-> IF u = {} THEN <<>>
                            ELSE IF s[Max(u)] \in keep THEN Append(g[u \ {Max(u)}], s[Max(u)])
                            ELSE g[u \ {Max(u)}]]

\* What is kept is the value of such a function at all positions.
LEMMA KeptIs ==
    ASSUME NEW s, NEW keep
    PROVE  Kept(s, keep) = (CHOOSE g : Keeps(s, keep, DOMAIN s, g))[DOMAIN s]
BY Zenon DEF Kept, FoldLeft, MapThenFoldSet, Keeps

Next_(s, keep, u, before) ==
    IF s[Max(u)] \in keep THEN Append(before, s[Max(u)]) ELSE before

\* Such functions agree where both are defined.
LEMMA KeepsOnce ==
    ASSUME NEW s, NEW keep, NEW S, \A x \in S : x \in Int, NEW T, IsFiniteSet(S), NEW g, NEW h,
           Keeps(s, keep, S, g), Keeps(s, keep, T, h),
           NEW v \in SUBSET S, v \subseteq T
    PROVE  g[v] = h[v]
<1> DEFINE B == {u \in SUBSET S : u \subseteq T /\ g[u] # h[u]}
<1> SUFFICES ASSUME B # {} PROVE FALSE
  OBVIOUS
<1>1. PICK u \in B : \A t \in B : t \subseteq u => t = u
  <2> HIDE DEF B
  <2>1. B \in SUBSET (SUBSET S)
    BY DEF B
  <2> QED BY <2>1, Smallest
<1>2. u # {}
  BY <1>1 DEF Keeps
<1>3. Max(u) \in u
  <2>1. IsFiniteSet(u) /\ (\A x \in u : x \in Int)
    BY <1>1, FS_Subset
  <2> QED BY <1>2, <2>1, MaxIsLargest
<1>4. u \ {Max(u)} \notin B /\ u \ {Max(u)} \subseteq S
  BY <1>1, <1>3
<1>5. g[u \ {Max(u)}] = h[u \ {Max(u)}]
  BY <1>4
<1>6. g[u] = Next_(s, keep, u, g[u \ {Max(u)}]) /\ h[u] = Next_(s, keep, u, h[u \ {Max(u)}])
  BY <1>2, Zenon DEF Keeps, Next_
<1> QED BY <1>1, <1>5, <1>6

\* There is such a function on every finite set of positions.
LEMMA KeepsExists ==
    ASSUME NEW s, NEW keep, NEW S, \A x \in S : x \in Int, IsFiniteSet(S)
    PROVE  \E g : Keeps(s, keep, S, g)
<1> DEFINE B == {u \in SUBSET S : ~ \E g : Keeps(s, keep, u, g)}
<1> SUFFICES ASSUME B # {} PROVE FALSE
  OBVIOUS
<1>1. PICK u \in B : \A t \in B : t \subseteq u => t = u
  <2> HIDE DEF B
  <2>1. B \in SUBSET (SUBSET S)
    BY DEF B
  <2> QED BY <2>1, Smallest
<1> DEFINE g(t) == CHOOSE g : Keeps(s, keep, t, g)
           G == [t \in SUBSET u |-> IF t # u THEN g(t)[t]
                                    ELSE IF u = {} THEN <<>>
                                    ELSE Next_(s, keep, u, g(u \ {Max(u)})[u \ {Max(u)}])]
<1>2. ASSUME NEW t \in SUBSET u
      PROVE  /\ IsFiniteSet(t) /\ (\A x \in t : x \in Int)
             /\ t # u => Keeps(s, keep, t, g(t))
             /\ t # {} => Max(t) \in t
  <2>1. t # u => \E h : Keeps(s, keep, t, h)
    BY <1>1, <1>2
  <2>2. IsFiniteSet(t) /\ (\A x \in t : x \in Int)
    BY <1>2, FS_Subset
  <2> QED BY <2>1, <2>2, MaxIsLargest
<1>3. ASSUME NEW t \in SUBSET u
      PROVE  G[t] = IF t = {} THEN <<>> ELSE Next_(s, keep, t, G[t \ {Max(t)}])
  <2> DEFINE r == t \ {Max(t)}
  <2>1. CASE t = {} /\ t # u
    <3>1. G[t] = g(t)[t]
      BY <2>1
    <3> HIDE DEF g, G
    <3>2. Keeps(s, keep, t, g(t))
      BY <1>2, <2>1
    <3> QED BY <2>1, <3>1, <3>2 DEF Keeps
  <2>2. CASE t = {} /\ t = u
    BY <2>2
  <2>3. CASE t # {}
    <3>1. Max(t) \in t
      BY <1>2, <2>3
    <3>2. r \in SUBSET u /\ r # u
      BY <3>1
    <3>3. G[r] = g(r)[r]
      BY <3>2
    <3>4. CASE t = u
      BY <2>3, <3>3, <3>4
    <3>5. CASE t # u
      <4>1. G[t] = g(t)[t]
        BY <3>5
      <4> HIDE DEF g, G
      <4>2. Keeps(s, keep, t, g(t)) /\ Keeps(s, keep, r, g(r)) /\ IsFiniteSet(t) /\ (\A x \in t : x \in Int)
            /\ IsFiniteSet(r) /\ (\A x \in r : x \in Int)
        BY <1>2, <3>2, <3>5
      <4>3. g(t)[r] = g(r)[r]
        <5>1. r \in SUBSET t /\ r \subseteq r
          OBVIOUS
        <5> DEFINE a == g(t)
                   b == g(r)
        <5>2. Keeps(s, keep, t, a) /\ Keeps(s, keep, r, b)
          BY <4>2
        <5> HIDE DEF r, a, b
        <5>3. a[r] = b[r]
          BY <4>2, <5>1, <5>2, KeepsOnce
        <5> QED BY <5>3 DEF a, b
      <4>4. g(t)[t] = Next_(s, keep, t, g(t)[r])
        BY <4>2, <2>3, Zenon DEF Keeps, Next_
      <4> QED BY <2>3, <3>3, <4>1, <4>3, <4>4
    <3> QED BY <3>4, <3>5
  <2> QED BY <2>1, <2>2, <2>3
<1>4. Keeps(s, keep, u, G)
  <2>1. G = [t \in SUBSET u |-> G[t]]
    OBVIOUS
  <2> HIDE DEF G
  <2>2. [t \in SUBSET u |-> G[t]] =
          [t \in SUBSET u |-> IF t = {} THEN <<>> ELSE Next_(s, keep, t, G[t \ {Max(t)}])]
    BY <1>3
  <2> QED BY <2>1, <2>2, Zenon DEF Keeps, Next_
<1> QED BY <1>1, <1>4

\* The positions of s, in s, of the elements of k: each is of one that keep has, and
\* of all of these.
Places(s, keep, u, k, m) ==
    /\ m \in [DOMAIN k -> u]
    /\ \A x \in DOMAIN k : k[x] = s[m[x]] /\ k[x] \in keep
    /\ \A y \in u : s[y] \in keep => \E x \in DOMAIN k : m[x] = y
    /\ \A x, y \in DOMAIN k : m[x] = m[y] => x = y

\* What is kept of a sequence are its elements that are in keep, each as often as it
\* occurs.
LEMMA KeptOnes ==
    ASSUME NEW V, NEW s \in Seq(V), NEW keep
    PROVE  /\ Kept(s, keep) \in Seq(V \cap keep)
           /\ \E m : Places(s, keep, DOMAIN s, Kept(s, keep), m)
<1> DEFINE S == 1 .. Len(s)
           g == CHOOSE g : Keeps(s, keep, S, g)
           P(u) == g[u] \in Seq(V \cap keep) /\ \E m : Places(s, keep, u, g[u], m)
           B == {u \in SUBSET S : ~ P(u)}
<1>1. (\A x \in S : x \in Int) /\ IsFiniteSet(S) /\ DOMAIN s = S
  BY FS_Interval
<1>2. Keeps(s, keep, S, g)
  BY <1>1, KeepsExists
<1>3. Kept(s, keep) = g[S]
  BY <1>1, KeptIs
<1> SUFFICES ASSUME B # {} PROVE FALSE
  BY <1>1, <1>3
<1> HIDE DEF g
<1>4. PICK u \in B : \A t \in B : t \subseteq u => t = u
  <2> HIDE DEF B
  <2>1. B \in SUBSET (SUBSET S)
    BY DEF B
  <2> HIDE DEF S
  <2> QED BY <1>1, <2>1, Smallest
<1>5. CASE u = {}
  <2>1. g[u] = <<>>
    BY <1>2, <1>4, <1>5 DEF Keeps
  <2>2. Places(s, keep, u, g[u], <<>>)
    BY <1>5, <2>1 DEF Places
  <2>3. g[u] \in Seq(V \cap keep)
    BY <2>1
  <2>4. P(u)
    BY <2>2, <2>3
  <2> QED BY <1>4, <2>4
<1>6. CASE u # {}
  <2> DEFINE y == Max(u)
             r == u \ {y}
             k == g[r]
  <2>1. y \in u
    <3>1. IsFiniteSet(u) /\ (\A x \in u : x \in Int)
      BY <1>1, <1>4, FS_Subset
    <3> QED BY <1>6, <3>1, MaxIsLargest
  <2>2. g[u] = IF s[y] \in keep THEN Append(k, s[y]) ELSE k
    BY <1>2, <1>4, <1>6, Zenon DEF Keeps
  <2> HIDE DEF y
  <2>3. P(r)
    <3>1. r \subseteq u /\ r # u /\ r \in SUBSET S
      BY <1>4, <2>1
    <3>2. r \notin B
      <4> HIDE DEF r, B
      <4> QED BY <1>4, <3>1
    <3> HIDE DEF r, P
    <3> QED BY <3>1, <3>2
  <2>4. s[y] \in V
    BY <1>4, <2>1
  <2> HIDE DEF k
  <2>5. PICK m : Places(s, keep, r, k, m)
    BY <2>3 DEF k
  <2>6. k \in Seq(V \cap keep)
    BY <2>3 DEF k
  <2>7. CASE s[y] \in keep
    <3> DEFINE a == Append(k, s[y])
               n == [x \in DOMAIN a |-> IF x = Len(k) + 1 THEN y ELSE m[x]]
    <3>1. a \in Seq(V \cap keep) /\ DOMAIN a = DOMAIN k \cup {Len(k) + 1} /\ Len(k) + 1 \notin DOMAIN k
      BY <2>4, <2>6, <2>7
    <3>2. a[Len(k) + 1] = s[y] /\ \A x \in DOMAIN k : a[x] = k[x] /\ x # Len(k) + 1
      BY <2>4, <2>6, <2>7
    <3> DEFINE z == Len(k) + 1
    <3> HIDE DEF a, z
    <3>3. Places(s, keep, u, a, n)
      <4>1. \A x \in DOMAIN k : m[x] \in u /\ m[x] # y /\ k[x] = s[m[x]] /\ k[x] \in keep
        BY <2>5 DEF Places
      <4>2. n \in [DOMAIN a -> u]
        BY <2>1, <3>1, <4>1 DEF z
      <4>3. n[z] = y /\ \A x \in DOMAIN k : n[x] = m[x]
        BY <3>1, <3>2 DEF z
      <4>4. DOMAIN a = DOMAIN k \cup {z} /\ a[z] = s[y] /\ \A x \in DOMAIN k : a[x] = k[x] /\ x # z
        BY <3>1, <3>2 DEF z
      <4> HIDE DEF n
      <4>5. \A x \in DOMAIN a : a[x] = s[n[x]] /\ a[x] \in keep
        BY <2>7, <4>1, <4>3, <4>4
      <4>6. \A w \in u : s[w] \in keep => \E x \in DOMAIN a : n[x] = w
        <5> TAKE w \in u
        <5>1. CASE w = y
          BY <4>3, <4>4, <5>1
        <5>2. CASE w # y
          <6> SUFFICES ASSUME s[w] \in keep PROVE \E x \in DOMAIN a : n[x] = w
            OBVIOUS
          <6>1. PICK x \in DOMAIN k : m[x] = w
            BY <2>5, <5>2 DEF Places
          <6> QED BY <4>3, <4>4, <6>1
        <5> QED BY <5>1, <5>2
      <4>7. \A v, w \in DOMAIN a : n[v] = n[w] => v = w
        <5>1. \A v, w \in DOMAIN k : m[v] = m[w] => v = w
          BY <2>5 DEF Places
        <5> QED BY <4>1, <4>3, <4>4, <5>1
      <4> QED BY <4>2, <4>5, <4>6, <4>7 DEF Places
    <3>4. g[u] = a
      BY <2>2, <2>7 DEF a
    <3> QED BY <1>4, <3>1, <3>3, <3>4
  <2>8. CASE s[y] \notin keep
    <3>1. Places(s, keep, u, k, m)
      BY <2>5, <2>8 DEF Places
    <3>2. g[u] = k
      BY <2>2, <2>8
    <3> QED BY <1>4, <2>6, <3>1, <3>2
  <2> QED BY <2>7, <2>8
<1> QED BY <1>5, <1>6

-----------------------------------------------------------------------------
(* Types                                                                      *)

\* The order of the names is a sequence of images.
LEMMA OrderType == Order \in Seq(Images)
<1>1. IsFiniteSet(Images)
  BY EditorAssumption
<1>2. Cardinality(Images) \in Nat /\ ExistsBijection(1 .. Cardinality(Images), Images)
  BY <1>1, FS_CardinalityType
<1>3. PICK f : f \in Bijection(1 .. Cardinality(Images), Images)
  BY <1>2 DEF ExistsBijection
<1>4. f \in [1 .. Cardinality(Images) -> Images] /\ \A a, b \in DOMAIN f : f[a] = f[b] => a = b
  BY <1>3 DEF Bijection, Injection, IsInjective
<1>5. \A a, b \in 1 .. Cardinality(Images) : a # b => f[a] # f[b]
  BY <1>4
<1>6. f \in SetToSeqs(Images)
  BY <1>4, <1>5 DEF SetToSeqs
<1>7. Order \in SetToSeqs(Images)
  BY <1>6 DEF Order
<1>8. Order \in [1 .. Cardinality(Images) -> Images]
  BY <1>7 DEF SetToSeqs
<1> QED BY <1>2, <1>8

\* What is discovered are images that are there.
LEMMA DiscoveredType ==
    ASSUME NEW path
    PROVE  Discovered(path) \in Seq({i \in Images : Exists(i, "image")})
<1> DEFINE K == {i \in path : Exists(i, "image")}
<1>1. Kept(Order, K) \in Seq(Images \cap K)
  BY OrderType, KeptOnes
<1>2. Images \cap K \subseteq {i \in Images : Exists(i, "image")}
  OBVIOUS
<1>3. Discovered(path) = Kept(Order, K)
  BY DEF Discovered
<1> HIDE DEF K
<1> QED BY <1>1, <1>2, <1>3

\* A sequence without one of its elements has no others.
LEMMA RemoveAtType ==
    ASSUME NEW V, NEW s \in Seq(V), NEW k \in DOMAIN s
    PROVE  RemoveAt(s, k) \in Seq(V)
<1>1. k \in 1 .. Len(s) /\ Len(s) \in Nat
  OBVIOUS
<1>2. SubSeq(s, 1, k - 1) \in Seq(V)
  <2>1. \A x \in 1 .. k - 1 : s[x] \in V
    BY <1>1
  <2>2. k - 1 \in Int
    BY <1>1
  <2> QED BY <2>1, <2>2, SubSeqProperties
<1>3. SubSeq(s, k + 1, Len(s)) \in Seq(V)
  <2>1. \A x \in k + 1 .. Len(s) : s[x] \in V
    BY <1>1
  <2>2. k + 1 \in Int /\ Len(s) \in Int
    BY <1>1
  <2> QED BY <2>1, <2>2, SubSeqProperties
<1> DEFINE a == SubSeq(s, 1, k - 1)
           b == SubSeq(s, k + 1, Len(s))
<1>4. RemoveAt(s, k) = a \o b
  BY DEF RemoveAt
<1> HIDE DEF a, b
<1>5. a \in Seq(V) /\ b \in Seq(V)
  BY <1>2, <1>3 DEF a, b
<1>6. a \o b \in Seq(V)
  BY <1>5, ConcatProperties
<1> QED BY <1>4, <1>6

\* samples.jsonl without an image: a table in which no row refers to that and the rows
\* of every other image are as they were.
LEMMA WithoutImage ==
    ASSUME samples \in Seq(SUBSET Images), NEW i \in Images
    PROVE  /\ samples_without_image(i) \in Seq(SUBSET Images)
           /\ ~Refer(samples_without_image(i), i)
           /\ \A j \in Images \ {i} :
                /\ Refer(samples_without_image(i), j) => Refer(samples, j)
                /\ Once(samples, j) => Once(samples_without_image(i), j)
<1> DEFINE c == [r \in DOMAIN samples |-> samples[r] \ {i}]
           keep == (SUBSET Images) \ {{}}
           k == Kept(c, keep)
<1>1. c \in Seq(SUBSET Images) /\ DOMAIN c = DOMAIN samples
  <2>1. DOMAIN samples = 1 .. Len(samples) /\ Len(samples) \in Nat
    OBVIOUS
  <2>2. c \in [1 .. Len(samples) -> SUBSET Images]
    BY <2>1
  <2> QED BY <2>1, <2>2
<1>2. \A r \in DOMAIN samples : c[r] = samples[r] \ {i} /\ c[r] \subseteq Images
  BY <1>1
<1>3. k = samples_without_image(i)
  BY DEF samples_without_image
<1> HIDE DEF c
<1>4. k \in Seq((SUBSET Images) \cap keep) /\ \E m : Places(c, keep, DOMAIN c, k, m)
  BY <1>1, KeptOnes
<1>5. PICK m : Places(c, keep, DOMAIN samples, k, m)
  BY <1>1, <1>4
<1>6. k \in Seq(SUBSET Images)
  <2>1. (SUBSET Images) \cap keep \subseteq SUBSET Images
    OBVIOUS
  <2> HIDE DEF keep, k
  <2> QED BY <1>4, <2>1
<1> HIDE DEF k
<1>7. \A x \in DOMAIN k : m[x] \in DOMAIN samples /\ k[x] = samples[m[x]] \ {i}
  BY <1>2, <1>5 DEF Places
<1>8. ~Refer(k, i)
  BY <1>7 DEF Refer
<1>9. ASSUME NEW j \in Images \ {i}
      PROVE  /\ Refer(k, j) => Refer(samples, j)
             /\ Once(samples, j) => Once(k, j)
  <2>1. Refer(k, j) => Refer(samples, j)
    BY <1>7 DEF Refer
  <2>2. ASSUME Once(samples, j) PROVE Once(k, j)
    <3>1. PICK r \in DOMAIN samples : \A s \in DOMAIN samples : j \in samples[s] <=> s = r
      BY <2>2 DEF Once
    <3>2. c[r] \in keep
      BY <1>2, <1>9, <3>1
    <3>3. PICK x \in DOMAIN k : m[x] = r
      BY <1>5, <3>2 DEF Places
    <3>4. \A y \in DOMAIN k : j \in k[y] <=> y = x
      <4> TAKE y \in DOMAIN k
      <4>1. j \in k[y] <=> m[y] = r
        BY <1>7, <1>9, <3>1
      <4>2. m[y] = m[x] => y = x
        BY <1>5 DEF Places
      <4> QED BY <3>3, <4>1, <4>2
    <3> QED BY <3>3, <3>4 DEF Once
  <2> QED BY <2>1, <2>2
<1> QED BY <1>3, <1>6, <1>8, <1>9

\* A request is one of its kinds.
LEMMA RequestOf ==
    ASSUME request \in Requests
    PROVE  /\ request.op = "none" => request = Idle
           /\ request.op \in {"load", "delete"} =>
                request \in [op : {"load", "delete"}, tab : Tabs, index : Nat]
           /\ request.op = "save" =>
                request \in [op : {"save"}, tab : Tabs, index : Nat, revision : Contents,
                             draft : Contents]
           /\ request.op = "revision" =>
                request \in [op : {"revision"}, tab : Tabs, index : Nat, image : Images,
                             shown : Contents]
           /\ request.op = "replace" =>
                request \in [op : {"replace"}, tab : Tabs, index : Nat, image : Images,
                             draft : Contents]
           /\ request.op \in {"stage", "unlink"} =>
                request \in [op : {"stage", "unlink"}, index : Nat, tab : Tabs, image : Images,
                             rows : Seq(SUBSET Images), rest : Rests, staged : SUBSET PartNames]
<1> HIDE DEF Contents
<1> QED BY DEF Requests, Idle

\* One part of one image is replaced.
LEMMA OnePart ==
    ASSUME NEW V, NEW f \in [Images -> [PartNames -> V]], NEW i \in Images,
           NEW p \in PartNames, NEW v \in V
    PROVE  /\ [f EXCEPT ![i][p] = v] \in [Images -> [PartNames -> V]]
           /\ \A j \in Images, q \in PartNames :
                [f EXCEPT ![i][p] = v][j][q] = IF j = i /\ q = p THEN v ELSE f[j][q]
<1> HIDE DEF PartNames
<1> QED OBVIOUS

\* What can be read of a label is made of its lines.
LEMMA ReadableType == ASSUME NEW c \in Contents PROVE Readable(c) \in Contents
BY DEF Readable, Contents

\* A draft is made of lines others write.
LEMMA DraftsType == Drafts \subseteq SUBSET (UNION Labels) /\ Drafts \subseteq Contents
BY DEF Drafts, Readable, Contents, Lines

\* The files a request of the server, or anyone else, leaves.
Files == [Images -> [PartNames -> File]]

\* No file and an image are contents too.
LEMMA SomeContents == Missing \in Contents /\ Pixels \in Contents
<1> DEFINE U == UNION Labels
<1>0. Lines = U \cup Missing \cup Pixels
  BY DEF Lines
<1> HIDE DEF U
<1>1. Missing \subseteq Lines /\ Pixels \subseteq Lines
  BY <1>0
<1> QED BY <1>1 DEF Contents

\* A label another process writes is a content, and not the absence of one.
LEMMA CollectedType ==
    ASSUME NEW c \in Labels
    PROVE  c \in Contents /\ c \subseteq UNION Labels /\ c # Missing
<1>1. c \subseteq UNION Labels
  OBVIOUS
<1>2. "no such file" \notin UNION Labels
  BY EditorAssumption
<1>3. c # Missing
  BY <1>1, <1>2 DEF Missing
<1>4. UNION Labels \subseteq Lines
  BY DEF Lines
<1> HIDE DEF Lines
<1>5. c \subseteq Lines
  BY <1>1, <1>4
<1> QED BY <1>1, <1>3, <1>5 DEF Contents

\* The rows at the start and the captures are rows.
LEMMA RowsType == Rows \in Seq(SUBSET Images) /\ Captures \in Seq(SUBSET Images)
BY EditorAssumption

\* A sequence over a set is one over a larger set.
LEMMA SeqMono ==
    ASSUME NEW V, NEW W, V \subseteq W, NEW s \in Seq(V)
    PROVE  s \in Seq(W)
OBVIOUS

\* The state has its type at the start.
LEMMA InitTypes == Init => EditorTypeOK
<1> SUFFICES ASSUME Init PROVE EditorTypeOK
  OBVIOUS
<1>1. file \in Files
  <2>1. PICK c \in Collected :
          file = [i \in Images |-> IF \E r \in DOMAIN Rows : i \in Rows[r]
                                   THEN [image |-> Here(Pixels), label |-> Here(c)]
                                   ELSE [image |-> Here(Missing), label |-> Here(Missing)]]
    BY DEF Init
  <2>2. c \in Contents /\ Pixels \in Contents /\ Missing \in Contents
    <3>1. c \in Labels
      BY DEF Collected
    <3> QED BY <3>1, SomeContents, CollectedType
  <2>3. \A d \in Contents : Here(d) \in File
    BY <2>2 DEF Here, File
  <2>4. \A a, b \in File : [image |-> a, label |-> b] \in [PartNames -> File]
    <3> HIDE DEF File
    <3> QED BY DEF PartNames
  <2> HIDE DEF Contents, File, PartNames
  <2> DEFINE w == [image |-> Here(Pixels), label |-> Here(c)]
             v == [image |-> Here(Missing), label |-> Here(Missing)]
  <2>5. w \in [PartNames -> File] /\ v \in [PartNames -> File]
    BY <2>2, <2>3, <2>4
  <2> HIDE DEF w, v
  <2>6. file = [i \in Images |-> IF \E r \in DOMAIN Rows : i \in Rows[r] THEN w ELSE v]
    BY <2>1 DEF w, v
  <2> QED BY <2>5, <2>6 DEF Files
<1>2. samples \in Seq(SUBSET Images)
  BY RowsType DEF Init
<1>3. server \in [up : BOOLEAN, entries : Seq(Images)]
  <2>1. Discovered(Images) \in Seq(Images)
    <3>1. {i \in Images : Exists(i, "image")} \subseteq Images
      OBVIOUS
    <3> QED BY <3>1, DiscoveredType, SeqMono
  <2> QED BY <2>1 DEF Init
<1>4. request \in Requests
  BY DEF Init, Requests
<1>5. tab \in [Tabs -> [index : Nat, revision : Contents, shown : Contents, draft : Contents]]
  <2>1. Missing \in Contents
    BY SomeContents
  <2> QED BY <2>1 DEF Init, NoImage
<1>6. captured \in 0 .. Len(Captures)
  <2>1. Len(Captures) \in Nat
    BY RowsType
  <2> QED BY <2>1 DEF Init
<1>7. late \subseteq Images /\ broken \subseteq Images
  BY DEF Init
<1>8. server.up /\ request.op = "none"
  BY DEF Init, Idle
<1> QED BY <1>1, <1>2, <1>3, <1>4, <1>5, <1>6, <1>7, <1>8 DEF EditorTypeOK, Files

\* What the steps that touch files leave of them.
Put(i, p, v) ==
    /\ file' \in Files
    /\ \A j \in Images, q \in PartNames :
         file'[j][q] = IF j = i /\ q = p THEN v ELSE file[j][q]

\* Who writes a label writes nothing else.
LEMMA LabelWritten ==
    ASSUME EditorTypeOK, NEW i \in Images, NEW c \in Contents,
           file' = [file EXCEPT ![i]["label"].here = c]
    PROVE  Put(i, "label", [file[i]["label"] EXCEPT !.here = c])
<1>1. "label" \in PartNames
  BY DEF PartNames
<1> DEFINE v == [file[i]["label"] EXCEPT !.here = c]
<1>2. file \in [Images -> [PartNames -> File]]
  BY DEF EditorTypeOK
<1>3. file[i]["label"] \in File
  <2> HIDE DEF PartNames, File
  <2> QED BY <1>1, <1>2
<1>4. v \in File
  BY <1>3 DEF File
<1>5. file' = [file EXCEPT ![i]["label"] = v]
  OBVIOUS
<1> HIDE DEF v, PartNames, File
<1>7. [file EXCEPT ![i]["label"] = v] \in [Images -> [PartNames -> File]]
  BY <1>1, <1>2, <1>4, OnePart
<1>8. \A j \in Images, q \in PartNames :
        [file EXCEPT ![i]["label"] = v][j][q] = IF j = i /\ q = "label" THEN v ELSE file[j][q]
  BY <1>1, <1>2, <1>4, OnePart
<1>9. Put(i, "label", v)
  BY <1>5, <1>7, <1>8 DEF Put, Files
<1> QED BY <1>9 DEF v

\* A failed deletion gives back what it can of what it has staged.
LEMMA RestoreEffect ==
    ASSUME EditorTypeOK, NEW i \in Images, NEW s, NEW n, RestoreStaged(i, s, n)
    PROVE  \E back \in SUBSET s :
             /\ file' \in Files
             /\ \A j \in Images, q \in PartNames :
                  file'[j][q] = IF j = i /\ q \in back THEN Restored(file[j][q]) ELSE file[j][q]
             /\ broken' = IF back = s THEN broken ELSE broken \cup {i}
<1>0. PICK back \in SUBSET s :
        /\ file' = [file EXCEPT ![i] = [p \in DOMAIN @ |-> IF p \in back THEN Restored(@[p])
                                                           ELSE @[p]]]
        /\ broken' = IF back = s THEN broken ELSE broken \cup {i}
  BY DEF RestoreStaged
<1>1. file \in [Images -> [PartNames -> File]]
  BY DEF EditorTypeOK
<1>2. \A f \in File : Restored(f) \in File
  BY SomeContents DEF File, Restored
<1> DEFINE w == [p \in PartNames |-> IF p \in back THEN Restored(file[i][p]) ELSE file[i][p]]
<1> HIDE DEF PartNames, File
<1>3. DOMAIN file[i] = PartNames /\ \A p \in PartNames : file[i][p] \in File
  BY <1>1
<1>4. w \in [PartNames -> File]
  BY <1>2, <1>3
<1>5. file' = [file EXCEPT ![i] = w]
  BY <1>0, <1>3
<1>6. \A q \in PartNames : w[q] = IF q \in back THEN Restored(file[i][q]) ELSE file[i][q]
  OBVIOUS
<1> HIDE DEF w
<1>7. file' \in Files
  BY <1>1, <1>4, <1>5 DEF Files
<1>8. file'[i] = w /\ \A j \in Images \ {i} : file'[j] = file[j]
  BY <1>1, <1>5
<1>9. \A j \in Images, q \in PartNames :
        file'[j][q] = IF j = i /\ q \in back THEN Restored(file[j][q]) ELSE file[j][q]
  BY <1>6, <1>8
<1> QED BY <1>0, <1>7, <1>9

\* A step of a deletion on one file.
LEMMA PartWritten ==
    ASSUME EditorTypeOK, NEW i \in Images, NEW p \in PartNames, NEW v \in File,
           file' = [file EXCEPT ![i][p] = v]
    PROVE  Put(i, p, v)
<1>1. file \in [Images -> [PartNames -> File]]
  BY DEF EditorTypeOK
<1> HIDE DEF PartNames, File
<1>2. [file EXCEPT ![i][p] = v] \in [Images -> [PartNames -> File]]
  BY <1>1, OnePart
<1>3. \A j \in Images, q \in PartNames :
        [file EXCEPT ![i][p] = v][j][q] = IF j = i /\ q = p THEN v ELSE file[j][q]
  BY <1>1, OnePart
<1> QED BY <1>2, <1>3 DEF Put, Files

\* One file is staged, or removed for good.
LEMMA StagedFile ==
    ASSUME EditorTypeOK, NEW i \in Images, NEW p \in PartNames,
           file' = [file EXCEPT ![i][p] = Staged(@)]
    PROVE  Put(i, p, Staged(file[i][p]))
<1>1. file[i][p] \in File
  <2> HIDE DEF File, PartNames
  <2> QED BY DEF EditorTypeOK
<1>2. Staged(file[i][p]) \in File
  BY <1>1, SomeContents DEF Staged, File
<1>3. file' = [file EXCEPT ![i][p] = Staged(file[i][p])]
  OBVIOUS
<1> HIDE DEF Staged
<1> QED BY <1>2, <1>3, PartWritten

\* The removal of a staged file changes that file only.
LEMMA UnlinkedFile ==
    ASSUME EditorTypeOK, NEW i \in Images, NEW p \in PartNames,
           file' = [file EXCEPT ![i][p].staged = Missing]
    PROVE  Put(i, p, [file[i][p] EXCEPT !.staged = Missing])
<1>1. file[i][p] \in File
  <2> HIDE DEF File, PartNames
  <2> QED BY DEF EditorTypeOK
<1> DEFINE v == [file[i][p] EXCEPT !.staged = Missing]
<1>2. v \in File
  BY <1>1, SomeContents DEF File
<1>3. file' = [file EXCEPT ![i][p] = v]
  OBVIOUS
<1> HIDE DEF v
<1>4. Put(i, p, v)
  BY <1>2, <1>3, PartWritten
<1> QED BY <1>4 DEF v

\* A capture writes the files of its row and no others, and nothing staged.
LEMMA CapturedFiles ==
    ASSUME EditorTypeOK, Capture
    PROVE  LET row == Captures[captured + 1]
           IN  /\ row \subseteq Images /\ captured + 1 \in DOMAIN Captures
               /\ file' \in Files
               /\ \A j \in Images \ row : file'[j] = file[j]
               /\ \E c \in Collected : \A j \in row, q \in PartNames :
                    file'[j][q] = Written(file[j][q], IF q = "image" THEN Pixels ELSE c)
<1> DEFINE row == Captures[captured + 1]
<1>1. row \subseteq Images /\ captured + 1 \in DOMAIN Captures
  <2>1. captured \in 0 .. Len(Captures) /\ captured < Len(Captures) /\ Len(Captures) \in Nat
    BY RowsType DEF EditorTypeOK, Capture
  <2>2. captured + 1 \in DOMAIN Captures
    BY <2>1, RowsType
  <2> QED BY <2>2, RowsType
<1> HIDE DEF row
<1>2. PICK c \in Collected :
        file' = [i \in Images |-> IF i \notin row THEN file[i]
                                  ELSE [image |-> Written(file[i]["image"], Pixels),
                                        label |-> Written(file[i]["label"], c)]]
  BY DEF Capture, row
<1>3. file \in [Images -> [PartNames -> File]]
  BY DEF EditorTypeOK
<1>4. c \in Contents /\ Pixels \in Contents
  <2>1. c \in Labels
    BY DEF Collected
  <2> QED BY <2>1, CollectedType, SomeContents
<1>5. \A f \in File : Written(f, c) \in File /\ Written(f, Pixels) \in File
  BY <1>4 DEF Written, File
<1> HIDE DEF File
<1>6. \A a, b \in File : /\ [image |-> a, label |-> b] \in [PartNames -> File]
                         /\ [image |-> a, label |-> b]["image"] = a
                         /\ [image |-> a, label |-> b]["label"] = b
  BY DEF PartNames
<1>7. "image" \in PartNames /\ "label" \in PartNames
      /\ \A q \in PartNames : q = "image" \/ q = "label"
  BY DEF PartNames
<1> DEFINE w(i) == [image |-> Written(file[i]["image"], Pixels),
                    label |-> Written(file[i]["label"], c)]
<1>8. \A i \in Images : /\ w(i) \in [PartNames -> File]
                        /\ w(i)["image"] = Written(file[i]["image"], Pixels)
                        /\ w(i)["label"] = Written(file[i]["label"], c)
  <2> TAKE i \in Images
  <2>1. file[i]["image"] \in File /\ file[i]["label"] \in File
    <3> HIDE DEF PartNames
    <3> QED BY <1>3, <1>7
  <2> DEFINE a == Written(file[i]["image"], Pixels)
             b == Written(file[i]["label"], c)
  <2>2. a \in File /\ b \in File
    BY <1>5, <2>1
  <2>3. w(i) = [image |-> a, label |-> b]
    OBVIOUS
  <2> HIDE DEF a, b, w, PartNames
  <2>4. w(i) \in [PartNames -> File] /\ w(i)["image"] = a /\ w(i)["label"] = b
    BY <1>6, <2>2, <2>3
  <2> QED BY <2>4 DEF a, b
<1>9. file' = [i \in Images |-> IF i \notin row THEN file[i] ELSE w(i)]
  BY <1>2
<1> HIDE DEF w, PartNames
<1>10. file' \in [Images -> [PartNames -> File]]
  BY <1>3, <1>8, <1>9
<1>11. \A j \in Images \ row : file'[j] = file[j]
  BY <1>9
<1>12. \A j \in row, q \in PartNames :
         file'[j][q] = Written(file[j][q], IF q = "image" THEN Pixels ELSE c)
  <2> TAKE j \in row, q \in PartNames
  <2>1. file'[j] = w(j) /\ j \in Images
    BY <1>1, <1>9
  <2>2. CASE q = "image"
    BY <1>8, <2>1, <2>2
  <2>3. CASE q # "image"
    <3>1. q = "label"
      BY <1>7, <2>3
    <3> QED BY <1>8, <2>1, <2>3, <3>1
  <2> QED BY <2>2, <2>3
<1> QED BY <1>1, <1>10, <1>11, <1>12 DEF Files, row

\* What is left to stage, and what of it comes first.
LEMMA RestsShrink ==
    ASSUME NEW r \in Rests, r # <<>>
    PROVE  /\ Head(r) \in PartNames /\ Tail(r) \in Rests
           /\ Elements(r) = {Head(r)} \cup Elements(Tail(r))
           /\ Head(r) \notin Elements(Tail(r)) /\ Elements(r) \subseteq PartNames
<1>1. \A a : Head(<<a>>) = a /\ Tail(<<a>>) = <<>>
  OBVIOUS
<1>2. \A a, b : Head(<<a, b>>) = a /\ Tail(<<a, b>>) = <<b>>
  OBVIOUS
<1>3. Elements(<<>>) = {} /\ \A a : Elements(<<a>>) = {a}
  BY DEF Elements
<1>4. \A a, b : Elements(<<a, b>>) = {a, b}
  BY DEF Elements
<1>5. CASE r = <<"image", "label">>
  BY <1>2, <1>3, <1>4, <1>5 DEF Rests, PartNames
<1>6. CASE r = <<"label">>
  BY <1>1, <1>3, <1>6 DEF Rests, PartNames
<1> QED BY <1>5, <1>6 DEF Rests

\* Every step keeps the types.
LEMMA StepTypes == EditorTypeOK /\ [Next]_vars => EditorTypeOK'
<1> SUFFICES ASSUME EditorTypeOK, [Next]_vars PROVE EditorTypeOK'
  OBVIOUS
<1> USE RequestOf
<1> DEFINE Tab == [index : Nat, revision : Contents, shown : Contents, draft : Contents]
           Server == [up : BOOLEAN, entries : Seq(Images)]
<1>0. /\ file \in Files /\ samples \in Seq(SUBSET Images) /\ server \in Server
      /\ request \in Requests /\ tab \in [Tabs -> Tab] /\ captured \in 0 .. Len(Captures)
      /\ late \subseteq Images /\ broken \subseteq Images /\ (server.up \/ request = Idle)
  BY DEF EditorTypeOK, Files
<1>a. /\ NoImage \in Tab /\ Idle \in Requests /\ Idle.op = "none"
      /\ NoImage.index = 0
  BY SomeContents DEF NoImage, Requests, Idle
<1>b. \A t \in Tabs : Listed(t) => tab' \in [Tabs -> Tab]
  <2> HIDE DEF Tab
  <2> QED BY <1>0, <1>a DEF Listed
<1>c. \A path : Discovered(path) \in Seq(Images)
  <2> TAKE path
  <2>1. {i \in Images : Exists(i, "image")} \subseteq Images
    OBVIOUS
  <2> QED BY <2>1, DiscoveredType, SeqMono
<1> HIDE DEF Tab
<1>1. ASSUME NEW t \in Tabs, Snapshot(t) PROVE EditorTypeOK'
  <2>1. tab' \in [Tabs -> Tab]
    BY <1>1, <1>b DEF Snapshot
  <2> QED BY <1>0, <1>1, <2>1 DEF Snapshot, EditorTypeOK, Files, Tab
<1>2. ASSUME NEW t \in Tabs, OpenPath(t) PROVE EditorTypeOK'
  <2>1. tab' \in [Tabs -> Tab]
    BY <1>0, <1>2, <1>b DEF OpenPath
  <2>2. server' \in Server
    <3>1. PICK path : \/ server' = server
                      \/ server' = [server EXCEPT !.entries = Discovered(path)]
      BY <1>2 DEF OpenPath
    <3>2. Discovered(path) \in Seq(Images)
      BY <1>c
    <3> HIDE DEF Discovered
    <3> QED BY <1>0, <3>1, <3>2
  <2>3. request = Idle
    BY <1>2 DEF OpenPath, Free
  <2> QED BY <1>0, <1>2, <1>a, <2>1, <2>2, <2>3 DEF OpenPath, EditorTypeOK, Files, Tab
<1>3. ASSUME NEW t \in Tabs, Edit(t) PROVE EditorTypeOK'
  <2>1. tab' \in [Tabs -> Tab]
    <3>1. PICK c \in Drafts : tab' = [tab EXCEPT ![t].draft = c]
      BY <1>3 DEF Edit
    <3>2. c \in Contents
      BY <3>1, DraftsType
    <3> QED BY <1>0, <3>1, <3>2 DEF Tab
  <2> QED BY <1>0, <1>3, <2>1 DEF Edit, EditorTypeOK, Files, Tab
<1>4. ASSUME NEW t \in Tabs, Send(t) PROVE EditorTypeOK'
  <2>1. tab[t].index \in Nat /\ tab[t].revision \in Contents /\ tab[t].draft \in Contents
    BY <1>0 DEF Tab
  <2>2. request' \in Requests /\ request'.op \in {"load", "save", "delete"} /\ server.up
    <3>1. CASE \E k \in 1 .. Cardinality(Images) :
                 request' = [op |-> "load", tab |-> t, index |-> k]
      <4>1. PICK k \in 1 .. Cardinality(Images) :
                 request' = [op |-> "load", tab |-> t, index |-> k]
        BY <3>1
      <4>2. k \in Nat
        BY <4>1
      <4> QED BY <1>4, <4>1, <4>2 DEF Requests, Send, Free
    <3>2. CASE request' = [op |-> "save", tab |-> t, index |-> tab[t].index,
                           revision |-> tab[t].revision, draft |-> tab[t].draft]
      BY <1>4, <2>1, <3>2 DEF Requests, Send, Free
    <3>3. CASE request' = [op |-> "delete", tab |-> t, index |-> tab[t].index]
      BY <1>4, <2>1, <3>3 DEF Requests, Send, Free
    <3> QED BY <1>4, <3>1, <3>2, <3>3 DEF Send
  <2> QED BY <1>0, <1>4, <2>2 DEF Send, EditorTypeOK, Files, Tab
<1>5. CASE OutOfRange
  BY <1>0, <1>5, <1>a DEF OutOfRange, EditorTypeOK, Files, Tab
<1>6. CASE LoadAnnotations
  <2>1. request.tab \in Tabs /\ request.index \in Nat /\ Entry \in Images
    BY <1>0, <1>6 DEF LoadAnnotations, Doing, InRange, Entry
  <2>2. Readable(file[Entry]["label"].here) \in Contents
    <3>1. file[Entry]["label"] \in File
      BY <1>0, <2>1 DEF Files, PartNames
    <3>2. file[Entry]["label"].here \in Contents
      BY <3>1 DEF File
    <3> QED BY <3>2, ReadableType
  <2> DEFINE i == Entry
             s == Readable(file[Entry]["label"].here)
  <2>3. request' = [op |-> "revision", tab |-> request.tab, index |-> request.index,
                    image |-> i, shown |-> s]
    BY <1>6 DEF LoadAnnotations, Asker
  <2> HIDE DEF i, s
  <2>4. request' \in Requests /\ request'.op = "revision"
    BY <2>1, <2>2, <2>3 DEF Requests, i, s
  <2> QED BY <1>0, <1>6, <2>4 DEF LoadAnnotations, Doing, EditorTypeOK, Files, Tab
<1>7. CASE FileRevision
  <2>1. request.tab \in Tabs /\ request.index \in Nat /\ request.image \in Images
        /\ request.shown \in Contents
    BY <1>0, <1>7 DEF FileRevision, Doing
  <2>2. file[request.image]["label"].here \in Contents
    <3>1. file[request.image]["label"] \in File
      BY <1>0, <2>1 DEF Files, PartNames
    <3> QED BY <3>1 DEF File
  <2>3. tab' \in [Tabs -> Tab]
    <3> DEFINE n == request.index
               v == file[request.image]["label"].here
               s == request.shown
               a == request.tab
    <3>1. tab' = [tab EXCEPT ![a] = [index |-> n, revision |-> v, shown |-> s, draft |-> s]]
      BY <1>7 DEF FileRevision, Asker
    <3>2. n \in Nat /\ v \in Contents /\ s \in Contents /\ a \in Tabs
      BY <2>1, <2>2
    <3> DEFINE r == [index |-> n, revision |-> v, shown |-> s, draft |-> s]
    <3> HIDE DEF n, v, s, a
    <3>3. r \in Tab
      BY <3>2 DEF Tab
    <3> HIDE DEF r
    <3> QED BY <1>0, <3>1, <3>2, <3>3 DEF r
  <2> QED BY <1>0, <1>7, <1>a, <2>3 DEF FileRevision, EditorTypeOK, Files, Tab
<1>8. CASE SaveChecks
  <2>1. request.tab \in Tabs /\ request.index \in Nat /\ Entry \in Images
        /\ request.draft \in Contents /\ server.up
    BY <1>0, <1>8 DEF SaveChecks, Doing, InRange, Entry
  <2> DEFINE i == Entry
  <2>2. request' = Idle \/ request' = [op |-> "replace", tab |-> request.tab,
             index |-> request.index, image |-> i, draft |-> request.draft]
    BY <1>8 DEF SaveChecks, Asker
  <2> HIDE DEF i
  <2>3. request' \in Requests /\ request'.op \in {"none", "replace"}
    BY <1>a, <2>1, <2>2 DEF Requests, i
  <2> QED BY <1>0, <1>8, <2>1, <2>3 DEF SaveChecks, EditorTypeOK, Files, Tab
<1>9. CASE SaveReplaces
  <2>1. request.tab \in Tabs /\ request.index \in Nat /\ request.image \in Images
        /\ request.draft \in Contents /\ server.up
    BY <1>0, <1>9 DEF SaveReplaces, Doing
  <2>2. file' \in Files
    BY <1>0, <1>9, <2>1, LabelWritten DEF SaveReplaces, Put
  <2>3. request' = Idle \/ request' = [op |-> "revision", tab |-> request.tab,
             index |-> request.index, image |-> request.image, shown |-> request.draft]
    BY <1>9 DEF SaveReplaces, Asker
  <2>4. request' \in Requests /\ request'.op \in {"none", "revision"}
    BY <1>a, <2>1, <2>3 DEF Requests
  <2> QED BY <1>0, <1>9, <2>1, <2>2, <2>4 DEF SaveReplaces, EditorTypeOK, Files, Tab
<1>10. CASE DeleteReads
  <2>1. request.tab \in Tabs /\ request.index \in Nat /\ Entry \in Images /\ server.up
        /\ request.index \in DOMAIN server.entries
    BY <1>0, <1>10 DEF DeleteReads, Doing, InRange, Entry
  <2> DEFINE i == Entry
             w == samples_without_image(Entry)
  <2>2. w \in Seq(SUBSET Images)
    BY <1>0, <2>1, WithoutImage
  <2>3. request' = Idle \/ request' = [op |-> "stage", index |-> request.index,
             tab |-> request.tab, image |-> i, rows |-> w, rest |-> Parts, staged |-> {}]
    BY <1>10 DEF DeleteReads, Asker
  <2> HIDE DEF i, w
  <2>4. Parts \in Rests /\ {} \in SUBSET PartNames
    BY DEF Parts, Rests
  <2>5. request' \in Requests /\ request'.op \in {"none", "stage"}
        /\ (request'.op = "stage" => request'.index = request.index)
    <3>1. CASE request' = Idle
      BY <1>a, <3>1
    <3>2. CASE request' # Idle
      <4> DEFINE P == Parts
                 E == {}
      <4>1. request' = [op |-> "stage", index |-> request.index, tab |-> request.tab,
                        image |-> i, rows |-> w, rest |-> P, staged |-> E]
        BY <2>3, <3>2
      <4>2. P \in Rests /\ E \in SUBSET PartNames
        BY <2>4
      <4> HIDE DEF P, E, Rests, PartNames
      <4> QED BY <2>1, <2>2, <4>1, <4>2 DEF Requests, i
    <3> QED BY <3>1, <3>2
  <2> QED BY <1>0, <1>10, <2>1, <2>5 DEF DeleteReads, EditorTypeOK, Files, Tab
<1> DEFINE Deletion == [op : {"stage", "unlink"}, index : Nat, tab : Tabs, image : Images,
                        rows : Seq(SUBSET Images), rest : Rests, staged : SUBSET PartNames]
<1>d. Deletion \subseteq Requests
  BY DEF Requests
<1>e. ASSUME NEW i \in Images, NEW s, NEW n, RestoreStaged(i, s, n)
      PROVE  file' \in Files /\ broken' \subseteq Images /\ request' = Idle
  <2>2. file' \in Files
    BY <1>e, RestoreEffect
  <2> QED BY <1>0, <1>e, <2>2 DEF RestoreStaged
<1>f. ASSUME request.op \in {"stage", "unlink"}
      PROVE  request \in Deletion /\ server.up /\ request.index \in DOMAIN server.entries
  BY <1>0, <1>a, <1>f DEF EditorTypeOK
<1>11. CASE StageFile
  <2>1. request \in Deletion /\ server.up /\ request.index \in DOMAIN server.entries
        /\ request.op = "stage" /\ request.rest # <<>>
    BY <1>11, <1>f DEF StageFile, Doing
  <2> DEFINE i == request.image
             p == Head(request.rest)
             next == [request EXCEPT !.rest = Tail(@)]
  <2>2. p \in PartNames /\ Tail(request.rest) \in Rests /\ i \in Images
    BY <2>1, RestsShrink
  <2>3. next \in Deletion /\ next.op = "stage" /\ next.index = request.index
        /\ next.staged = request.staged
    <3> DEFINE T == Tail(request.rest)
    <3>1. next = [request EXCEPT !.rest = T]
      OBVIOUS
    <3> HIDE DEF T, next, Rests, PartNames
    <3> QED BY <2>1, <2>2, <3>1 DEF T
  <2>4. UNCHANGED <<samples, server, tab, captured, late>>
    BY <1>11 DEF StageFile
  <2>5. \/ request' = next /\ UNCHANGED <<file, broken>>
        \/ /\ file' = [file EXCEPT ![i][p] = Staged(@)]
           /\ request' = [next EXCEPT !.staged = @ \cup {p}] /\ UNCHANGED broken
        \/ \E n : RestoreStaged(i, request.staged, n)
    BY <1>11 DEF StageFile
  <2> HIDE DEF next, p, i, Rests, PartNames
  <2>6. CASE request' = next /\ UNCHANGED <<file, broken>>
    <3>1. request' \in Requests /\ request'.op = "stage" /\ request'.index = request.index
      BY <1>d, <2>3, <2>6
    <3> HIDE DEF Deletion
    <3> QED BY <1>0, <2>1, <2>4, <2>6, <3>1 DEF EditorTypeOK, Files, Tab
  <2>7. CASE /\ file' = [file EXCEPT ![i][p] = Staged(@)]
             /\ request' = [next EXCEPT !.staged = @ \cup {p}] /\ UNCHANGED broken
    <3>1. file' \in Files
      BY <2>2, <2>7, StagedFile DEF Put
    <3>2. request' \in Deletion /\ request'.op = "stage" /\ request'.index = request.index
      <4> DEFINE u == request.staged \cup {p}
      <4>1. u \in SUBSET PartNames
        BY <2>1, <2>2
      <4>2. request' = [next EXCEPT !.staged = u]
        BY <2>3, <2>7
      <4> HIDE DEF u
      <4> QED BY <2>3, <4>1, <4>2
    <3>3. request' \in Requests
      BY <1>d, <3>2
    <3> HIDE DEF Deletion
    <3> QED BY <1>0, <2>1, <2>4, <2>7, <3>1, <3>2, <3>3 DEF EditorTypeOK, Files, Tab
  <2>8. CASE \E n : RestoreStaged(i, request.staged, n)
    <3>1. file' \in Files /\ broken' \subseteq Images /\ request' = Idle
      BY <1>e, <2>2, <2>8
    <3> QED BY <1>0, <1>a, <2>4, <3>1 DEF EditorTypeOK, Files, Tab
  <2> QED BY <2>5, <2>6, <2>7, <2>8
<1>12. CASE SaveSamples
  <2>1. request \in Deletion /\ server.up /\ request.index \in DOMAIN server.entries
        /\ request.op = "stage"
    BY <1>12, <1>f DEF SaveSamples, Doing
  <2>2. UNCHANGED <<server, tab, captured, late>>
    BY <1>12 DEF SaveSamples
  <2>3. CASE samples' = request.rows /\ request' = [request EXCEPT !.op = "unlink"]
             /\ UNCHANGED <<file, broken>>
    <3>1. request' \in Deletion /\ request'.op = "unlink" /\ request'.index = request.index
      <4> HIDE DEF Rests, PartNames
      <4> QED BY <2>1, <2>3
    <3>2. request' \in Requests /\ request.rows \in Seq(SUBSET Images)
      BY <1>d, <2>1, <3>1
    <3> HIDE DEF Deletion
    <3> QED BY <1>0, <2>1, <2>2, <2>3, <3>1, <3>2 DEF EditorTypeOK, Files, Tab
  <2>4. CASE RestoreStaged(request.image, request.staged, 1) /\ UNCHANGED samples
    <3>0. request.image \in Images
      BY <2>1
    <3>1. file' \in Files /\ broken' \subseteq Images /\ request' = Idle
      BY <1>e, <2>4, <3>0
    <3> QED BY <1>0, <1>a, <2>2, <2>4, <3>1 DEF EditorTypeOK, Files, Tab
  <2> QED BY <1>12, <2>3, <2>4 DEF SaveSamples
<1>13. CASE Unlink
  <2>1. request \in Deletion /\ server.up /\ request.index \in DOMAIN server.entries
        /\ request.op = "unlink"
    BY <1>13, <1>f DEF Unlink, Doing
  <2>2. PICK p \in request.staged :
          /\ request' = [request EXCEPT !.staged = @ \ {p}]
          /\ \/ file' = [file EXCEPT ![request.image][p].staged = Missing]
             \/ UNCHANGED file
    BY <1>13 DEF Unlink
  <2>3. p \in PartNames /\ request.image \in Images
    BY <2>1, <2>2
  <2>4. file' \in Files
    BY <1>0, <2>2, <2>3, UnlinkedFile DEF Put
  <2>5. request' \in Deletion /\ request'.op = "unlink" /\ request'.index = request.index
    <3> DEFINE u == request.staged \ {p}
    <3>1. u \in SUBSET PartNames
      BY <2>1
    <3>2. request' = [request EXCEPT !.staged = u]
      BY <2>2
    <3> HIDE DEF u, Rests, PartNames
    <3> QED BY <2>1, <3>1, <3>2
  <2>6. request' \in Requests
    BY <1>d, <2>5
  <2> HIDE DEF Deletion
  <2> QED BY <1>0, <1>13, <2>1, <2>4, <2>5, <2>6 DEF Unlink, EditorTypeOK, Files, Tab
<1>14. CASE DeleteReplies
  <2>1. request \in Deletion /\ server.up /\ request.index \in DOMAIN server.entries
    BY <1>14, <1>f DEF DeleteReplies, Doing
  <2>2. server' \in Server
    <3> DEFINE e == RemoveAt(server.entries, request.index)
    <3>1. e \in Seq(Images)
      BY <1>0, <2>1, RemoveAtType
    <3>2. server' = [server EXCEPT !.entries = e]
      BY <1>14 DEF DeleteReplies
    <3> HIDE DEF e
    <3> QED BY <1>0, <3>1, <3>2
  <2>3. tab' \in [Tabs -> Tab]
    BY <1>14, <1>b, <2>1 DEF DeleteReplies, Asker
  <2> QED BY <1>0, <1>14, <1>a, <2>2, <2>3 DEF DeleteReplies, EditorTypeOK, Files, Tab
<1>15. CASE Capture
  <2> DEFINE row == Captures[captured + 1]
  <2>1. row \in SUBSET Images /\ captured + 1 \in DOMAIN Captures /\ file' \in Files
    BY <1>15, CapturedFiles
  <2>2. samples' = Append(samples, row) /\ late' \in {late, late \cup row}
        /\ captured' = captured + 1
    BY <1>15 DEF Capture
  <2>3. captured' \in 0 .. Len(Captures)
    <3>1. DOMAIN Captures = 1 .. Len(Captures) /\ Len(Captures) \in Nat
      BY RowsType
    <3> QED BY <1>0, <2>1, <2>2, <3>1
  <2> HIDE DEF row
  <2>4. samples' \in Seq(SUBSET Images) /\ late' \subseteq Images
    BY <1>0, <2>1, <2>2
  <2> QED BY <1>0, <1>15, <2>1, <2>3, <2>4 DEF Capture, EditorTypeOK, Files, Tab
<1>16. CASE Relabel
  <2>1. PICK i \in Images, c \in Labels : file' = [file EXCEPT ![i]["label"].here = c]
    BY <1>16 DEF Relabel
  <2>2. file' \in Files
    BY <2>1, CollectedType, LabelWritten DEF Put
  <2> QED BY <1>0, <1>16, <2>2 DEF Relabel, EditorTypeOK, Files, Tab
<1>17. CASE Crash
  <2>1. server' \in Server /\ request' = Idle
    BY <1>0, <1>17 DEF Crash
  <2>2. broken' \subseteq Images
    <3>1. request.op \in {"stage", "unlink"} => request.image \in Images
      BY <1>0
    <3> QED BY <1>0, <1>17, <3>1 DEF Crash
  <2> QED BY <1>0, <1>17, <1>a, <2>1, <2>2 DEF Crash, EditorTypeOK, Files, Tab
<1>18. CASE Restart
  <2>1. server' \in Server /\ server'.up
    <3> DEFINE e == Discovered(Images)
    <3>1. e \in Seq(Images) /\ server' = [up |-> TRUE, entries |-> e]
      BY <1>18, <1>c DEF Restart
    <3> HIDE DEF e
    <3> QED BY <3>1
  <2>2. request = Idle
    BY <1>0, <1>18 DEF Restart
  <2> QED BY <1>0, <1>18, <1>a, <2>1, <2>2 DEF Restart, EditorTypeOK, Files, Tab
<1>19. CASE UNCHANGED vars
  BY <1>0, <1>19 DEF vars, EditorTypeOK, Files, Tab
<1> QED BY <1>1, <1>2, <1>3, <1>4, <1>5, <1>6, <1>7, <1>8, <1>9, <1>10, <1>11, <1>12, <1>13,
           <1>14, <1>15, <1>16, <1>17, <1>18, <1>19 DEF Next

-----------------------------------------------------------------------------
(* Nothing is lost: the invariant                                             *)

\* What can be read of a label is a set of lines.
LEMMA ReadableLabel ==
    ASSUME NEW c, IsLabel(c)
    PROVE  Readable(c) \subseteq UNION Labels
BY DEF IsLabel, Readable

\* A set of lines is not the absence of a file.
LEMMA LinesAreThere == \A c : c \subseteq UNION Labels => c # Missing
<1>1. "no such file" \notin UNION Labels
  BY EditorAssumption
<1> QED BY <1>1 DEF Missing

\* At the start there are labels, and no drafts.
LEMMA InitDrafts == Init => DraftsOK
<1> SUFFICES ASSUME Init PROVE DraftsOK
  OBVIOUS
<1>1. PICK c \in Collected :
        file = [i \in Images |-> IF \E r \in DOMAIN Rows : i \in Rows[r]
                                 THEN [image |-> Here(Pixels), label |-> Here(c)]
                                 ELSE [image |-> Here(Missing), label |-> Here(Missing)]]
  BY DEF Init
<1>2. IsLabel(c) /\ IsLabel(Missing)
  BY CollectedType DEF Collected, IsLabel
<1>3. \A i \in Images : IsLabel(file[i]["label"].here) /\ IsLabel(file[i]["label"].staged)
  <2> HIDE DEF IsLabel, Missing
  <2> QED BY <1>1, <1>2 DEF Here
<1>4. \A t \in Tabs : tab[t].draft = tab[t].shown
  BY DEF Init, NoImage
<1>5. request.op = "none"
  BY DEF Init, Idle
<1> QED BY <1>3, <1>4, <1>5 DEF DraftsOK

\* The labels stay labels.
LEMMA StepLabels ==
    ASSUME EditorTypeOK, DraftsOK, [Next]_vars
    PROVE  \A i \in Images : IsLabel(file[i]["label"].here)' /\ IsLabel(file[i]["label"].staged)'
<1> USE RequestOf
<1> DEFINE L(f) == IsLabel(f.here) /\ IsLabel(f.staged)
<1> SUFFICES \A j \in Images : L(file'[j]["label"])
  BY DEF IsLabel
<1>0. /\ \A j \in Images : L(file[j]["label"]) /\ file[j]["label"] \in File
      /\ request \in Requests /\ "label" \in PartNames /\ "image" # "label"
  <2>1. file \in [Images -> [PartNames -> File]] /\ request \in Requests
    BY DEF EditorTypeOK
  <2> HIDE DEF File
  <2> QED BY <2>1 DEF DraftsOK, PartNames
<1>a. IsLabel(Missing) /\ \A c : c \subseteq UNION Labels => IsLabel(c)
  BY DEF IsLabel
<1>b. ASSUME UNCHANGED file PROVE \A j \in Images : L(file'[j]["label"])
  BY <1>0, <1>b
<1>c. ASSUME NEW i \in Images, NEW c \in Contents, c \subseteq UNION Labels,
             file' = [file EXCEPT ![i]["label"].here = c]
      PROVE  \A j \in Images : L(file'[j]["label"])
  <2>1. Put(i, "label", [file[i]["label"] EXCEPT !.here = c])
    BY <1>c, LabelWritten
  <2>2. L([file[i]["label"] EXCEPT !.here = c])
    BY <1>0, <1>a, <1>c DEF File
  <2> HIDE DEF L
  <2> QED BY <1>0, <2>1, <2>2 DEF Put
<1>d. ASSUME NEW i \in Images, NEW s, NEW n, RestoreStaged(i, s, n)
      PROVE  \A j \in Images : L(file'[j]["label"])
  <2>2. PICK back \in SUBSET s : \A j \in Images, q \in PartNames :
          file'[j][q] = IF j = i /\ q \in back THEN Restored(file[j][q]) ELSE file[j][q]
    BY <1>d, RestoreEffect
  <2>3. \A j \in Images : L(Restored(file[j]["label"]))
    BY <1>0, <1>a DEF Restored
  <2> HIDE DEF L
  <2> QED BY <1>0, <2>2, <2>3
<1>1. CASE SaveReplaces
  <2>1. request.image \in Images /\ request.draft \in Contents /\ request.draft \subseteq UNION Labels
    BY <1>0, <1>1 DEF SaveReplaces, Doing, DraftsOK
  <2> HIDE DEF L
  <2> QED BY <1>1, <1>b, <1>c, <2>1 DEF SaveReplaces
<1>2. CASE Relabel
  <2>1. PICK i \in Images, c \in Labels : file' = [file EXCEPT ![i]["label"].here = c]
    BY <1>2 DEF Relabel
  <2>2. c \in Contents /\ c \subseteq UNION Labels
    BY CollectedType
  <2> HIDE DEF L
  <2> QED BY <1>c, <2>1, <2>2
<1>3. CASE Capture
  <2> DEFINE row == Captures[captured + 1]
  <2>1. /\ \A j \in Images \ row : file'[j] = file[j]
        /\ \E c \in Collected : \A j \in row, q \in PartNames :
             file'[j][q] = Written(file[j][q], IF q = "image" THEN Pixels ELSE c)
        /\ row \subseteq Images
    BY <1>3, CapturedFiles
  <2> HIDE DEF row
  <2>2. PICK c \in Collected : \A j \in row, q \in PartNames :
             file'[j][q] = Written(file[j][q], IF q = "image" THEN Pixels ELSE c)
    BY <2>1
  <2>3. \A j \in row : file'[j]["label"] = Written(file[j]["label"], c)
    BY <1>0, <2>2
  <2>4. c \subseteq UNION Labels
    BY CollectedType DEF Collected
  <2>5. \A j \in row : L(Written(file[j]["label"], c))
    BY <1>0, <1>a, <2>1, <2>4 DEF Written, File
  <2> HIDE DEF L
  <2> QED BY <1>0, <2>1, <2>3, <2>5
<1>4. CASE StageFile
  <2> DEFINE i == request.image
             p == Head(request.rest)
  <2>1. i \in Images /\ p \in PartNames
    <3>1. request.rest \in Rests /\ request.rest # <<>> /\ i \in Images
      BY <1>0, <1>4 DEF StageFile, Doing
    <3> QED BY <3>1, RestsShrink
  <2>2. \/ UNCHANGED file
        \/ file' = [file EXCEPT ![i][p] = Staged(@)]
        \/ \E n : RestoreStaged(i, request.staged, n)
    BY <1>4 DEF StageFile
  <2>3. CASE file' = [file EXCEPT ![i][p] = Staged(@)]
    <3>1. Put(i, p, Staged(file[i][p]))
      BY <2>1, <2>3, StagedFile
    <3>2. \A j \in Images : L(Staged(file[j]["label"]))
      BY <1>0, <1>a DEF Staged
    <3> HIDE DEF i, p, L
    <3> QED BY <1>0, <3>1, <3>2 DEF Put
  <2> HIDE DEF L, p
  <2> QED BY <1>b, <1>d, <2>1, <2>2, <2>3
<1>5. CASE SaveSamples
  <2>1. request.image \in Images
    BY <1>0, <1>5 DEF SaveSamples, Doing
  <2> HIDE DEF L
  <2> QED BY <1>5, <1>b, <1>d, <2>1 DEF SaveSamples
<1>6. CASE Unlink
  <2>1. PICK p \in request.staged : \/ file' = [file EXCEPT ![request.image][p].staged = Missing]
                                   \/ UNCHANGED file
    BY <1>6 DEF Unlink
  <2>2. p \in PartNames /\ request.image \in Images
    BY <1>0, <1>6, <2>1 DEF Unlink, Doing
  <2>3. CASE file' = [file EXCEPT ![request.image][p].staged = Missing]
    <3>1. Put(request.image, p, [file[request.image][p] EXCEPT !.staged = Missing])
      BY <2>2, <2>3, UnlinkedFile
    <3>2. \A j \in Images : L([file[j]["label"] EXCEPT !.staged = Missing])
      BY <1>0, <1>a DEF File
    <3> HIDE DEF L
    <3> QED BY <1>0, <3>1, <3>2 DEF Put
  <2> QED BY <1>b, <2>1, <2>3
<1> HIDE DEF L
<1> QED BY <1>1, <1>2, <1>3, <1>4, <1>5, <1>6, <1>b DEF Next, vars, Snapshot, OpenPath, Edit, Send,
      OutOfRange, LoadAnnotations, FileRevision, SaveChecks, DeleteReads, DeleteReplies, Crash,
      Restart

\* So do the drafts.
LEMMA StepDrafts == EditorTypeOK /\ DraftsOK /\ [Next]_vars => DraftsOK'
<1> SUFFICES ASSUME EditorTypeOK, DraftsOK, [Next]_vars PROVE DraftsOK'
  OBVIOUS
<1> USE RequestOf
<1> DEFINE T(e) == (e.index # 0 /\ e.draft \subseteq UNION Labels) \/ e.draft = e.shown
           Q(r) == /\ r.op \in {"save", "replace"} => r.draft \subseteq UNION Labels
                   /\ r.op = "revision" => r.shown \subseteq UNION Labels
<1>1. /\ \A t \in Tabs : T(tab[t])
      /\ Q(request) /\ request \in Requests
      /\ tab \in [Tabs -> [index : Nat, revision : Contents, shown : Contents, draft : Contents]]
  BY DEF EditorTypeOK, DraftsOK
<1>2. \A t \in Tabs : T(tab'[t])
  <2>1. T(NoImage)
    BY DEF NoImage
  <2>2. ASSUME NEW t \in Tabs, Listed(t) PROVE \A u \in Tabs : T(tab'[u])
    <3> HIDE DEF T
    <3> QED BY <1>1, <2>1, <2>2 DEF Listed
  <2>3. ASSUME UNCHANGED tab PROVE \A u \in Tabs : T(tab'[u])
    BY <1>1, <2>3
  <2>4. ASSUME NEW t \in Tabs, Edit(t) PROVE \A u \in Tabs : T(tab'[u])
    <3>1. PICK c \in Drafts : tab' = [tab EXCEPT ![t].draft = c]
      BY <2>4 DEF Edit
    <3>2. c \subseteq UNION Labels /\ tab[t].index # 0
      BY <2>4, DraftsType DEF Edit
    <3>3. tab'[t].index # 0 /\ tab'[t].draft = c /\ \A u \in Tabs \ {t} : tab'[u] = tab[u]
      BY <1>1, <3>1, <3>2
    <3>4. T(tab'[t])
      BY <3>2, <3>3
    <3> HIDE DEF T
    <3> QED BY <1>1, <3>3, <3>4
  <2>5. CASE FileRevision
    <3> DEFINE r == [index |-> request.index, revision |-> file[request.image]["label"].here,
                     shown |-> request.shown, draft |-> request.shown]
    <3>1. tab' = [tab EXCEPT ![request.tab] = r]
      BY <2>5 DEF FileRevision, Asker
    <3>2. T(r)
      OBVIOUS
    <3> HIDE DEF T, r
    <3> QED BY <1>1, <3>1, <3>2
  <2>6. CASE DeleteReplies
    <3>1. request.tab \in Tabs
      BY <1>1, <2>6 DEF DeleteReplies, Doing
    <3> HIDE DEF T
    <3> QED BY <2>2, <2>6, <3>1 DEF DeleteReplies, Asker
  <2> HIDE DEF T
  <2> QED BY <2>2, <2>3, <2>4, <2>5, <2>6 DEF Next, vars, Snapshot, OpenPath, Send, OutOfRange,
        LoadAnnotations, SaveChecks, SaveReplaces, DeleteReads, StageFile, SaveSamples, Unlink,
        Capture, Relabel, Crash, Restart
<1>3. Q(request')
  <2>1. ASSUME request'.op \notin {"save", "replace", "revision"} PROVE Q(request')
    BY <2>1
  <2>2. ASSUME NEW t \in Tabs, Send(t) PROVE Q(request')
    <3>1. CASE Dirty(t) /\ request' = [op |-> "save", tab |-> t, index |-> tab[t].index,
                          revision |-> tab[t].revision, draft |-> tab[t].draft]
      <4>1. tab[t].draft \subseteq UNION Labels
        BY <1>1, <3>1 DEF Dirty
      <4>2. request'.draft \subseteq UNION Labels /\ request'.op = "save"
        BY <3>1, <4>1
      <4> QED BY <4>2
    <3>2. CASE request'.op \in {"load", "delete"}
      BY <3>2
    <3> QED BY <2>2, <3>1, <3>2 DEF Send
  <2>3. CASE LoadAnnotations
    <3>1. Entry \in Images
      <4>1. server.entries \in Seq(Images)
        BY DEF EditorTypeOK
      <4> QED BY <2>3, <4>1 DEF LoadAnnotations, InRange, Entry
    <3> DEFINE s == Readable(file[Entry]["label"].here)
    <3>2. s \subseteq UNION Labels
      BY <3>1, ReadableLabel DEF DraftsOK
    <3>3. request'.shown = s /\ request'.op = "revision"
      BY <2>3 DEF LoadAnnotations
    <3> HIDE DEF s
    <3> QED BY <3>2, <3>3
  <2>4. CASE SaveChecks
    <3>1. request.draft \subseteq UNION Labels
      BY <1>1, <2>4 DEF SaveChecks, Doing
    <3>2. request'.op = "none" \/ (request'.op = "replace" /\ request'.draft = request.draft)
      BY <2>4 DEF SaveChecks, Idle
    <3> QED BY <3>1, <3>2
  <2>5. CASE SaveReplaces
    <3>1. request.draft \subseteq UNION Labels
      BY <1>1, <2>5 DEF SaveReplaces, Doing
    <3>2. request'.op = "none" \/ (request'.op = "revision" /\ request'.shown = request.draft)
      BY <2>5 DEF SaveReplaces, Idle
    <3> QED BY <3>1, <3>2
  <2>6. CASE OutOfRange \/ FileRevision \/ DeleteReads \/ DeleteReplies \/ Crash \/ SaveSamples
             \/ StageFile \/ Unlink
    <3>1. request'.op \notin {"save", "replace", "revision"}
      <4>1. Idle.op = "none"
        BY DEF Idle
      <4>2. CASE OutOfRange \/ FileRevision \/ DeleteReplies \/ Crash
        BY <4>1, <4>2 DEF OutOfRange, FileRevision, DeleteReplies, Crash
      <4>3. CASE DeleteReads
        BY <4>1, <4>3 DEF DeleteReads
      <4>4. CASE SaveSamples
        <5>1. request \in Requests /\ request.op = "stage"
          BY <1>1, <4>4 DEF SaveSamples, Doing
        <5>2. request'.op = "none" \/ request' = [request EXCEPT !.op = "unlink"]
          BY <4>1, <4>4 DEF SaveSamples, RestoreStaged
        <5> QED BY <5>1, <5>2
      <4>5. CASE StageFile
        <5>1. request.op = "stage" /\ request \in Requests
          BY <1>1, <4>5 DEF StageFile, Doing
        <5>2. request'.op = "none" \/ request'.op = request.op
          BY <4>1, <4>5, <5>1 DEF StageFile, RestoreStaged
        <5> QED BY <5>1, <5>2
      <4>6. CASE Unlink
        <5>1. request.op = "unlink" /\ request \in Requests
          BY <1>1, <4>6 DEF Unlink, Doing
        <5>2. request'.op = request.op
          BY <4>6, <5>1 DEF Unlink
        <5> QED BY <5>1, <5>2
      <4> QED BY <2>6, <4>2, <4>3, <4>4, <4>5, <4>6
    <3> QED BY <2>1, <3>1
  <2> HIDE DEF Q
  <2> QED BY <1>1, <2>2, <2>3, <2>4, <2>5, <2>6 DEF Next, vars, Snapshot, OpenPath, Edit, Capture,
        Relabel, Restart
<1>4. \A i \in Images : IsLabel(file[i]["label"].here)' /\ IsLabel(file[i]["label"].staged)'
  BY StepLabels
<1> QED BY <1>2, <1>3, <1>4 DEF DraftsOK

\* Nor does the way back of what was staged.
LEMMA RestoreHas ==
    ASSUME EditorTypeOK, NEW i \in Images, NEW s, NEW n, RestoreStaged(i, s, n),
           \A p \in s : file[i][p].staged # Missing,
           NEW j \in Images, NEW q \in PartNames, Has(j, q)
    PROVE  Has(j, q)'
<1>1. PICK back \in SUBSET s : \A k \in Images, p \in PartNames :
        file'[k][p] = IF k = i /\ p \in back THEN Restored(file[k][p]) ELSE file[k][p]
  BY RestoreEffect
<1>2. CASE j = i /\ q \in back
  <2>1. file[j][q].staged # Missing
    BY <1>2
  <2>2. file'[j][q] = Restored(file[j][q])
    BY <1>1, <1>2
  <2> QED BY <2>1, <2>2 DEF Restored, Has
<1>3. CASE ~(j = i /\ q \in back)
  BY <1>1, <1>3 DEF Has
<1> QED BY <1>2, <1>3

\* No step but the removal of what is staged takes away the last copy of a file.
LEMMA StepHas ==
    ASSUME EditorTypeOK, DraftsOK, StagingOK, [Next]_vars,
           NEW j \in Images, NEW q \in PartNames, Has(j, q), ~(Unlink /\ j = request.image)
    PROVE  Has(j, q)'
<1> USE RequestOf
<1> DEFINE H(f) == f.here # Missing \/ f.staged # Missing
<1> SUFFICES H(file'[j][q])
  BY DEF Has
<1>0. /\ H(file[j][q]) /\ file[j][q] \in File /\ request \in Requests
      /\ "label" \in PartNames /\ "image" \in PartNames
  <2>1. file \in [Images -> [PartNames -> File]] /\ request \in Requests
    BY DEF EditorTypeOK
  <2>2. H(file[j][q])
    BY DEF Has
  <2>3. file[j][q] \in File
    <3> HIDE DEF File, PartNames
    <3> QED BY <2>1
  <2> QED BY <2>1, <2>2, <2>3 DEF PartNames
<1>a. ASSUME UNCHANGED file PROVE H(file'[j][q])
  BY <1>0, <1>a
<1>b. ASSUME NEW i \in Images, NEW c \in Contents, c # Missing,
             file' = [file EXCEPT ![i]["label"].here = c]
      PROVE  H(file'[j][q])
  <2>1. Put(i, "label", [file[i]["label"] EXCEPT !.here = c])
    BY <1>b, LabelWritten
  <2>2. CASE j = i /\ q = "label"
    <3>1. file'[j][q] = [file[j][q] EXCEPT !.here = c]
      BY <2>1, <2>2 DEF Put
    <3> QED BY <1>0, <1>b, <3>1 DEF File
  <2>3. CASE ~(j = i /\ q = "label")
    <3>1. file'[j][q] = file[j][q]
      BY <2>1, <2>3 DEF Put
    <3> QED BY <1>0, <3>1
  <2> QED BY <2>2, <2>3
<1>c. ASSUME NEW n, RestoreStaged(request.image, request.staged, n), request.op = "stage"
      PROVE  H(file'[j][q])
  <2>1. request.image \in Images /\ \A p \in request.staged : file[request.image][p].staged # Missing
    BY <1>0, <1>c DEF StagingOK
  <2>2. ASSUME NEW m \in Images, NEW s, RestoreStaged(m, s, n),
               \A p \in s : file[m][p].staged # Missing
        PROVE  Has(j, q)'
    BY <2>2, RestoreHas
  <2> QED BY <1>c, <2>1, <2>2 DEF Has
<1>1. CASE SaveReplaces
  <2>1. request.image \in Images /\ request.draft \in Contents /\ request.draft # Missing
    BY <1>0, <1>1, LinesAreThere DEF SaveReplaces, Doing, DraftsOK
  <2> HIDE DEF H
  <2> QED BY <1>1, <1>a, <1>b, <2>1 DEF SaveReplaces
<1>2. CASE Relabel
  <2>1. PICK i \in Images, c \in Labels : file' = [file EXCEPT ![i]["label"].here = c]
    BY <1>2 DEF Relabel
  <2>2. c \in Contents /\ c # Missing
    BY CollectedType
  <2> HIDE DEF H
  <2> QED BY <1>b, <2>1, <2>2
<1>3. CASE Capture
  <2> DEFINE row == Captures[captured + 1]
  <2>1. /\ \A i \in Images \ row : file'[i] = file[i]
        /\ \E c \in Collected : \A i \in row, p \in PartNames :
             file'[i][p] = Written(file[i][p], IF p = "image" THEN Pixels ELSE c)
    BY <1>3, CapturedFiles
  <2> HIDE DEF row
  <2>2. PICK c \in Collected : \A i \in row, p \in PartNames :
             file'[i][p] = Written(file[i][p], IF p = "image" THEN Pixels ELSE c)
    BY <2>1
  <2>3. c # Missing /\ Pixels # Missing
    BY CollectedType DEF Collected, Pixels, Missing
  <2>4. CASE j \in row
    <3>1. file'[j][q].here = (IF q = "image" THEN Pixels ELSE c)
      <4> DEFINE d == IF q = "image" THEN Pixels ELSE c
      <4>1. file'[j][q] = Written(file[j][q], d)
        BY <2>2, <2>4
      <4> HIDE DEF d
      <4>2. file'[j][q].here = d
        BY <1>0, <4>1 DEF Written, File
      <4> QED BY <4>2 DEF d
    <3> QED BY <2>3, <3>1
  <2>5. CASE j \notin row
    BY <1>0, <2>1, <2>5
  <2> QED BY <2>4, <2>5
<1>4. CASE StageFile
  <2> DEFINE i == request.image
             p == Head(request.rest)
  <2>1. i \in Images /\ p \in PartNames /\ request.op = "stage"
    <3>1. request.rest \in Rests /\ request.rest # <<>> /\ i \in Images /\ request.op = "stage"
      BY <1>0, <1>4 DEF StageFile, Doing
    <3> QED BY <3>1, RestsShrink
  <2>2. \/ UNCHANGED file
        \/ Exists(i, p) /\ file' = [file EXCEPT ![i][p] = Staged(@)]
        \/ \E n : RestoreStaged(i, request.staged, n)
    BY <1>4 DEF StageFile
  <2>3. CASE Exists(i, p) /\ file' = [file EXCEPT ![i][p] = Staged(@)]
    <3>1. Put(i, p, Staged(file[i][p]))
      BY <2>1, <2>3, StagedFile
    <3>2. H(Staged(file[i][p]))
      BY <2>3 DEF Staged, Exists
    <3> HIDE DEF i, p, H
    <3> QED BY <1>0, <3>1, <3>2 DEF Put
  <2> HIDE DEF H, p
  <2> QED BY <1>a, <1>c, <2>1, <2>2, <2>3
<1>5. CASE SaveSamples
  <2>1. request.op = "stage"
    BY <1>5 DEF SaveSamples, Doing
  <2> HIDE DEF H
  <2> QED BY <1>5, <1>a, <1>c, <2>1 DEF SaveSamples
<1>6. CASE Unlink
  <2>1. PICK p \in request.staged : \/ file' = [file EXCEPT ![request.image][p].staged = Missing]
                                   \/ UNCHANGED file
    BY <1>6 DEF Unlink
  <2>2. p \in PartNames /\ request.image \in Images
    BY <1>0, <1>6, <2>1 DEF Unlink, Doing
  <2>3. CASE file' = [file EXCEPT ![request.image][p].staged = Missing]
    <3>1. Put(request.image, p, [file[request.image][p] EXCEPT !.staged = Missing])
      BY <2>2, <2>3, UnlinkedFile
    <3>2. file'[j][q] = file[j][q]
      BY <1>6, <3>1 DEF Put
    <3> QED BY <1>0, <3>2
  <2> QED BY <1>a, <2>1, <2>3
<1> HIDE DEF H
<1> QED BY <1>1, <1>2, <1>3, <1>4, <1>5, <1>6, <1>a DEF Next, vars, Snapshot, OpenPath, Edit, Send,
      OutOfRange, LoadAnnotations, FileRevision, SaveChecks, DeleteReads, DeleteReplies, Crash,
      Restart

\* A new capture has its files.
LEMMA CapturedHas ==
    ASSUME EditorTypeOK, Capture
    PROVE  /\ \A j \in Captures[captured + 1], q \in PartNames :
                j \in Images /\ file'[j][q].here # Missing
           /\ \A j \in Images, q \in PartNames :
                /\ file'[j][q].staged = file[j][q].staged
                /\ file[j][q].here # Missing => file'[j][q].here # Missing
<1> DEFINE row == Captures[captured + 1]
<1>1. /\ row \subseteq Images
      /\ \A i \in Images \ row : file'[i] = file[i]
      /\ \E c \in Collected : \A i \in row, p \in PartNames :
           file'[i][p] = Written(file[i][p], IF p = "image" THEN Pixels ELSE c)
  BY CapturedFiles
<1> SUFFICES /\ \A j \in row, q \in PartNames : j \in Images /\ file'[j][q].here # Missing
             /\ \A j \in Images, q \in PartNames :
                  /\ file'[j][q].staged = file[j][q].staged
                  /\ file[j][q].here # Missing => file'[j][q].here # Missing
  OBVIOUS
<1> HIDE DEF row
<1>2. PICK c \in Collected : \A i \in row, p \in PartNames :
             file'[i][p] = Written(file[i][p], IF p = "image" THEN Pixels ELSE c)
  BY <1>1
<1>3. c # Missing /\ Pixels # Missing
  BY CollectedType DEF Collected, Pixels, Missing
<1>4. \A i \in Images, p \in PartNames : file[i][p] \in File
  <2>1. file \in [Images -> [PartNames -> File]]
    BY DEF EditorTypeOK
  <2> HIDE DEF File, PartNames
  <2> QED BY <2>1
<1>5. ASSUME NEW i \in row, NEW p \in PartNames
      PROVE  /\ file'[i][p].here = (IF p = "image" THEN Pixels ELSE c)
             /\ file'[i][p].staged = file[i][p].staged
  <2> DEFINE d == IF p = "image" THEN Pixels ELSE c
  <2>1. file'[i][p] = Written(file[i][p], d) /\ file[i][p] \in File
    BY <1>1, <1>2, <1>4
  <2> HIDE DEF d
  <2>2. file'[i][p].here = d /\ file'[i][p].staged = file[i][p].staged
    BY <2>1 DEF Written, File
  <2> QED BY <2>2 DEF d
<1>6. \A j \in row, q \in PartNames : j \in Images /\ file'[j][q].here # Missing
  BY <1>1, <1>3, <1>5
<1>7. \A j \in Images, q \in PartNames :
        /\ file'[j][q].staged = file[j][q].staged
        /\ file[j][q].here # Missing => file'[j][q].here # Missing
  <2> TAKE j \in Images, q \in PartNames
  <2>1. CASE j \in row
    BY <1>5, <1>6, <2>1
  <2>2. CASE j \notin row
    BY <1>1, <2>2
  <2> QED BY <2>1, <2>2
<1> QED BY <1>6, <1>7

\* A rewritten label is there, and nothing staged is touched.
LEMMA RelabelHas ==
    ASSUME EditorTypeOK, Relabel
    PROVE  \A j \in Images, q \in PartNames :
             /\ file'[j][q].staged = file[j][q].staged
             /\ file[j][q].here # Missing => file'[j][q].here # Missing
             /\ file[j][q].here = Missing => file'[j][q] = file[j][q]
<1>1. PICK i \in Images, c \in Labels : /\ file' = [file EXCEPT ![i]["label"].here = c]
                                        /\ file[i]["label"].here # Missing
  BY DEF Relabel
<1>2. c \in Contents /\ c # Missing
  BY CollectedType
<1>3. Put(i, "label", [file[i]["label"] EXCEPT !.here = c])
  BY <1>1, <1>2, LabelWritten
<1>4. file[i]["label"] \in File
  <2>1. file \in [Images -> [PartNames -> File]] /\ "label" \in PartNames
    BY DEF EditorTypeOK, PartNames
  <2> HIDE DEF File, PartNames
  <2> QED BY <2>1
<1> TAKE j \in Images, q \in PartNames
<1>5. CASE j = i /\ q = "label"
  <2>1. file'[j][q] = [file[j][q] EXCEPT !.here = c]
    BY <1>3, <1>5 DEF Put
  <2> QED BY <1>1, <1>2, <1>4, <1>5, <2>1 DEF File
<1>6. CASE ~(j = i /\ q = "label")
  <2>1. file'[j][q] = file[j][q]
    BY <1>3, <1>6 DEF Put
  <2> QED BY <2>1
<1> QED BY <1>5, <1>6

\* Unlink touches nothing that stands under its name.
LEMMA UnlinkKeeps ==
    ASSUME EditorTypeOK, Unlink
    PROVE  \A j \in Images, q \in PartNames :
             /\ file'[j][q].here = file[j][q].here
             /\ j # request.image => file'[j][q] = file[j][q]
<1>1. request \in Requests /\ request.op = "unlink" /\ file \in [Images -> [PartNames -> File]]
  BY DEF EditorTypeOK, Unlink, Doing
<1>2. PICK p \in request.staged : \/ file' = [file EXCEPT ![request.image][p].staged = Missing]
                                 \/ UNCHANGED file
  BY DEF Unlink
<1>3. p \in PartNames /\ request.image \in Images
  BY <1>1, <1>2, RequestOf
<1>4. \A j \in Images, q \in PartNames : file[j][q] \in File
  <2> HIDE DEF File, PartNames
  <2> QED BY <1>1
<1> TAKE j \in Images, q \in PartNames
<1>5. CASE file' = [file EXCEPT ![request.image][p].staged = Missing]
  <2>1. Put(request.image, p, [file[request.image][p] EXCEPT !.staged = Missing])
    BY <1>3, <1>5, UnlinkedFile
  <2>2. CASE j = request.image /\ q = p
    <3>1. file'[j][q] = [file[j][q] EXCEPT !.staged = Missing]
      BY <2>1, <2>2 DEF Put
    <3> QED BY <1>4, <2>2, <3>1 DEF File
  <2>3. CASE ~(j = request.image /\ q = p)
    BY <2>1, <2>3 DEF Put
  <2> QED BY <2>2, <2>3
<1>6. CASE UNCHANGED file
  BY <1>6
<1> QED BY <1>2, <1>5, <1>6

\* The rows after a capture are those before and its own.
LEMMA CapturedSamples ==
    ASSUME EditorTypeOK, Capture
    PROVE  /\ samples' = Append(samples, Captures[captured + 1])
           /\ DOMAIN samples' = DOMAIN samples \cup {Len(samples) + 1}
           /\ Len(samples) + 1 \notin DOMAIN samples
           /\ samples'[Len(samples) + 1] = Captures[captured + 1]
           /\ \A r \in DOMAIN samples : samples'[r] = samples[r]
           /\ \A i : Refer(samples', i) <=> Refer(samples, i) \/ i \in Captures[captured + 1]
<1> DEFINE row == Captures[captured + 1]
           n == Len(samples) + 1
<1>1. samples' = Append(samples, row) /\ samples \in Seq(SUBSET Images) /\ row \in SUBSET Images
  BY CapturedFiles DEF Capture, EditorTypeOK
<1> HIDE DEF row
<1>2. /\ DOMAIN samples' = DOMAIN samples \cup {n} /\ n \notin DOMAIN samples
      /\ samples'[n] = row /\ \A r \in DOMAIN samples : samples'[r] = samples[r]
  BY <1>1
<1> HIDE DEF n
<1>3. \A i : Refer(samples', i) <=> Refer(samples, i) \/ i \in row
  BY <1>2 DEF Refer
<1> QED BY <1>1, <1>2, <1>3 DEF row, n

\* What a deletion has staged stays staged, and its rows have their files.
LEMMA StepStaging ==
    ASSUME KeptInv, [Next]_vars
    PROVE  StagingOK'
<1> USE RequestOf
<1>0. /\ EditorTypeOK /\ DraftsOK /\ StagingOK /\ RowsHave(samples) /\ request \in Requests
      /\ samples \in Seq(SUBSET Images) /\ file \in [Images -> [PartNames -> File]]
      /\ server.entries \in Seq(Images)
  BY DEF KeptInv, EditorTypeOK
<1>2. \A j \in Images, q \in PartNames : Has(j, q) /\ ~(Unlink /\ j = request.image) => Has(j, q)'
  BY <1>0, StepHas
<1> DEFINE SS == /\ \A p \in request'.staged : file'[request'.image][p].staged # Missing
                 /\ \A i \in Images, p \in PartNames : Refer(request'.rows, i) => Has(i, p)'
                 /\ ~Refer(request'.rows, request'.image)
           UU == \A p \in PartNames : file'[request'.image][p].here # Missing
<1> SUFFICES /\ request'.op = "stage" => SS
             /\ request'.op = "unlink" /\ Refer(samples', request'.image) => UU
  BY DEF StagingOK, RowsHave, Refer, Has
<1>3. CASE request'.op \notin {"stage", "unlink"}
  BY <1>3
<1>4. CASE UNCHANGED <<request, file, samples>>
  <2>1. request.op = "stage" => SS
    <3>1. ~Unlink \/ request.op # "stage"
      BY DEF Unlink, Doing
    <3> QED BY <1>0, <1>2, <1>4, <3>1 DEF StagingOK, RowsHave
  <2>2. request.op = "unlink" /\ Refer(samples, request.image) => UU
    BY <1>0, <1>4 DEF StagingOK
  <2> HIDE DEF SS, UU
  <2> QED BY <1>4, <2>1, <2>2
<1>5. CASE DeleteReads /\ request'.op \in {"stage", "unlink"}
  <2> DEFINE i == Entry
             w == samples_without_image(Entry)
  <2>1. i \in Images
    BY <1>0, <1>5 DEF DeleteReads, InRange, Entry
  <2>2. ~Refer(w, i) /\ \A j \in Images : Refer(w, j) => Refer(samples, j)
    BY <1>0, <2>1, WithoutImage
  <2>3. request' = [op |-> "stage", index |-> request.index, tab |-> request.tab, image |-> i,
                    rows |-> w, rest |-> Parts, staged |-> {}] /\ UNCHANGED file
    BY <1>5 DEF DeleteReads, Asker, Idle
  <2> HIDE DEF i, w
  <2>4. request'.op = "stage" /\ request'.rows = w /\ request'.image = i /\ request'.staged = {}
    BY <2>3
  <2>5. ~Unlink
    BY <1>5 DEF DeleteReads, Unlink, Doing
  <2>6. SS
    BY <1>0, <1>2, <2>2, <2>4, <2>5 DEF RowsHave
  <2> HIDE DEF SS, UU
  <2> QED BY <2>4, <2>6
<1>6. CASE StageFile /\ request'.op \in {"stage", "unlink"}
  <2> DEFINE i == request.image
             p == Head(request.rest)
  <2>1. i \in Images /\ p \in PartNames /\ request.op = "stage" /\ ~Unlink
        /\ request \in [op : {"stage", "unlink"}, index : Nat, tab : Tabs, image : Images,
                       rows : Seq(SUBSET Images), rest : Rests, staged : SUBSET PartNames]
    <3>1. request.rest \in Rests /\ request.rest # <<>> /\ i \in Images /\ request.op = "stage"
          /\ ~Unlink
          /\ request \in [op : {"stage", "unlink"}, index : Nat, tab : Tabs, image : Images,
                         rows : Seq(SUBSET Images), rest : Rests, staged : SUBSET PartNames]
      BY <1>0, <1>6 DEF StageFile, Doing, Unlink
    <3> QED BY <3>1, RestsShrink
  <2> DEFINE next == [request EXCEPT !.rest = Tail(@)]
  <2>2. /\ next.op = "stage" /\ next.rows = request.rows /\ next.image = i
        /\ next.staged = request.staged
    <3> HIDE DEF Rests, PartNames
    <3> QED BY <2>1
  <2>3. \/ request' = next /\ UNCHANGED file
        \/ /\ Exists(i, p) /\ file' = [file EXCEPT ![i][p] = Staged(@)]
           /\ request' = [next EXCEPT !.staged = @ \cup {p}]
        \/ request' = Idle
    BY <1>6 DEF StageFile, RestoreStaged
  <2>4. request' # Idle
    BY <1>6 DEF Idle
  <2>5. /\ \A q \in request.staged : file[i][q].staged # Missing
        /\ RowsHave(request.rows) /\ ~Refer(request.rows, i)
    BY <1>0, <2>1 DEF StagingOK
  <2>6. \A j \in Images, q \in PartNames : Refer(request.rows, j) => Has(j, q)'
    BY <1>2, <2>1, <2>5 DEF RowsHave
  <2>7. CASE request' = next /\ UNCHANGED file
    <3> HIDE DEF next
    <3> QED BY <2>2, <2>5, <2>6, <2>7
  <2>8. CASE /\ Exists(i, p) /\ file' = [file EXCEPT ![i][p] = Staged(@)]
             /\ request' = [next EXCEPT !.staged = @ \cup {p}]
    <3>1. Put(i, p, Staged(file[i][p]))
      BY <1>0, <2>1, <2>8, StagedFile
    <3> DEFINE s == request.staged \cup {p}
    <3>2. request' = [request EXCEPT !.rest = Tail(@), !.staged = s]
      <4> HIDE DEF Rests, PartNames
      <4> QED BY <2>1, <2>8
    <3> HIDE DEF s, next
    <3>3. /\ request'.op = "stage" /\ request'.rows = request.rows /\ request'.image = i
          /\ request'.staged = s
      <4> HIDE DEF Rests, PartNames
      <4> QED BY <2>1, <3>2
    <3>4. \A q \in s : file'[i][q].staged # Missing
      <4> TAKE q \in s
      <4>1. q \in PartNames
        BY <2>1 DEF s
      <4>2. CASE q = p
        <5>1. file'[i][q] = Staged(file[i][p])
          BY <2>1, <3>1, <4>2 DEF Put
        <5> QED BY <2>8, <5>1 DEF Staged, Exists
      <4>3. CASE q # p
        <5>1. file'[i][q] = file[i][q] /\ q \in request.staged
          BY <2>1, <3>1, <4>1, <4>3 DEF Put, s
        <5> QED BY <2>5, <5>1
      <4> QED BY <4>2, <4>3
    <3> HIDE DEF i, p
    <3> QED BY <2>5, <2>6, <3>3, <3>4 DEF i
  <2> HIDE DEF SS, UU, next
  <2> QED BY <2>3, <2>4, <2>7, <2>8
<1>7. CASE SaveSamples /\ request'.op \in {"stage", "unlink"}
  <2>1. request.op = "stage" /\ request \in [op : {"stage", "unlink"}, index : Nat, tab : Tabs,
                       image : Images,
                       rows : Seq(SUBSET Images), rest : Rests, staged : SUBSET PartNames]
    BY <1>0, <1>7 DEF SaveSamples, Doing
  <2>2. samples' = request.rows /\ request' = [request EXCEPT !.op = "unlink"]
    <3>1. RestoreStaged(request.image, request.staged, 1) => request'.op = "none"
      BY DEF RestoreStaged, Idle
    <3>2. ~RestoreStaged(request.image, request.staged, 1)
      BY <1>7, <3>1
    <3> QED BY <1>7, <3>2 DEF SaveSamples
  <2>3. request'.image = request.image /\ request'.op = "unlink"
    <3> HIDE DEF Rests, PartNames
    <3> QED BY <2>1, <2>2
  <2>4. ~Refer(request.rows, request.image)
    BY <1>0, <2>1 DEF StagingOK
  <2> QED BY <2>2, <2>3, <2>4
<1>8. CASE Unlink
  <2>1. request.op = "unlink" /\ request \in [op : {"stage", "unlink"}, index : Nat, tab : Tabs,
                       image : Images,
                       rows : Seq(SUBSET Images), rest : Rests, staged : SUBSET PartNames]
    BY <1>0, <1>8 DEF Unlink, Doing
  <2>2. PICK p \in request.staged : request' = [request EXCEPT !.staged = @ \ {p}]
    BY <1>8 DEF Unlink
  <2>3. request'.image = request.image /\ request'.op = "unlink" /\ UNCHANGED samples
    <3> HIDE DEF Rests, PartNames
    <3> QED BY <1>8, <2>1, <2>2 DEF Unlink
  <2>4. Refer(samples, request.image) =>
          \A q \in PartNames : file[request.image][q].here # Missing
    BY <1>0, <2>1 DEF StagingOK
  <2>5. \A q \in PartNames : file'[request.image][q].here = file[request.image][q].here
    BY <1>0, <1>8, <2>1, UnlinkKeeps
  <2> QED BY <2>3, <2>4, <2>5
<1>9. CASE (Capture \/ Relabel) /\ request.op \in {"stage", "unlink"}
  <2>1. UNCHANGED request /\ request.image \in Images /\ request.staged \subseteq PartNames
    BY <1>0, <1>9 DEF Capture, Relabel
  <2>2. \A j \in Images, q \in PartNames :
          /\ file'[j][q].staged = file[j][q].staged
          /\ file[j][q].here # Missing => file'[j][q].here # Missing
    BY <1>0, <1>9, CapturedHas, RelabelHas
  <2>3. ASSUME request.op = "stage" PROVE SS
    <3>1. ~Unlink
      BY <2>3 DEF Unlink, Doing
    <3> QED BY <1>0, <1>2, <2>1, <2>2, <2>3, <3>1 DEF StagingOK, RowsHave
  <2>4. ASSUME request.op = "unlink", Refer(samples', request.image) PROVE UU
    <3>1. CASE Refer(samples, request.image)
      BY <1>0, <2>1, <2>2, <2>4, <3>1 DEF StagingOK
    <3>2. CASE ~Refer(samples, request.image)
      <4>1. Capture
        BY <1>9, <2>4, <3>2 DEF Relabel
      <4>2. request.image \in Captures[captured + 1]
        BY <1>0, <2>4, <3>2, <4>1, CapturedSamples
      <4> QED BY <1>0, <2>1, <4>1, <4>2, CapturedHas
    <3> QED BY <3>1, <3>2
  <2> HIDE DEF SS, UU
  <2> QED BY <2>1, <2>3, <2>4
<1>10. request'.op \notin {"stage", "unlink"} \/ UNCHANGED <<request, file, samples>>
       \/ DeleteReads \/ StageFile \/ SaveSamples \/ Unlink
       \/ ((Capture \/ Relabel) /\ request.op \in {"stage", "unlink"})
  <2>1. Idle.op \notin {"stage", "unlink"}
    BY DEF Idle
  <2>2. ASSUME NEW t \in Tabs, Send(t) PROVE request'.op \notin {"stage", "unlink"}
    BY <2>2 DEF Send
  <2>3. (LoadAnnotations \/ SaveChecks \/ SaveReplaces \/ OutOfRange \/ FileRevision \/ Crash
         \/ DeleteReplies) => request'.op \notin {"stage", "unlink"}
    BY <2>1 DEF LoadAnnotations, SaveChecks, SaveReplaces, OutOfRange, FileRevision, Crash,
         DeleteReplies
  <2>4. ASSUME NEW t \in Tabs, Snapshot(t) \/ OpenPath(t) \/ Edit(t)
        PROVE  UNCHANGED <<request, file, samples>>
    BY <2>4 DEF Snapshot, OpenPath, Edit
  <2>5. Restart \/ UNCHANGED vars => UNCHANGED <<request, file, samples>>
    BY DEF Restart, vars
  <2>6. Capture \/ Relabel => UNCHANGED request
    BY DEF Capture, Relabel
  <2> QED BY <2>2, <2>3, <2>4, <2>5, <2>6 DEF Next
<1> HIDE DEF SS, UU
<1> QED BY <1>3, <1>4, <1>5, <1>6, <1>7, <1>8, <1>9, <1>10

\* The step from one invariant to the next.
LEMMA StepKept == KeptInv /\ [Next]_vars => KeptInv'
<1> SUFFICES ASSUME KeptInv, [Next]_vars PROVE KeptInv'
  OBVIOUS
<1> USE RequestOf
<1>0. EditorTypeOK /\ DraftsOK /\ StagingOK /\ RowsHave(samples)
  BY DEF KeptInv
<1>1. EditorTypeOK' /\ DraftsOK'
  BY <1>0, StepTypes, StepDrafts
<1>t. /\ request \in Requests /\ samples \in Seq(SUBSET Images) /\ server.entries \in Seq(Images)
      /\ file \in [Images -> [PartNames -> File]]
  BY <1>0 DEF EditorTypeOK
<1>2. \A j \in Images, q \in PartNames : Has(j, q) /\ ~(Unlink /\ j = request.image) => Has(j, q)'
  BY <1>0, StepHas
<1>3. ASSUME NEW table, RowsHave(table), ~Unlink PROVE \A i \in Images, p \in PartNames :
        Refer(table, i) => Has(i, p)'
  BY <1>2, <1>3 DEF RowsHave
<1>4. (RowsHave(samples))'
  <2> SUFFICES \A i \in Images, p \in PartNames : Refer(samples', i) => Has(i, p)'
    BY DEF RowsHave, Refer, Has
  <2>1. CASE UNCHANGED samples /\ ~Unlink
    BY <1>0, <1>3, <2>1
  <2>2. CASE Unlink
    <3> SUFFICES ASSUME NEW i \in Images, NEW p \in PartNames, Refer(samples, i)
                 PROVE  Has(i, p)'
      BY <2>2 DEF Unlink
    <3>1. Has(i, p)
      BY <1>0 DEF RowsHave
    <3>2. CASE i # request.image
      BY <1>2, <3>1, <3>2
    <3>3. CASE i = request.image
      <4>1. file[i][p].here # Missing
        BY <1>0, <2>2, <3>3 DEF StagingOK, Unlink, Doing
      <4>2. file'[i][p].here = file[i][p].here
        BY <1>0, <2>2, UnlinkKeeps
      <4> QED BY <4>1, <4>2 DEF Has
    <3> QED BY <3>2, <3>3
  <2>3. CASE SaveSamples /\ samples' = request.rows
    <3>1. RowsHave(request.rows)
      BY <1>0, <2>3 DEF StagingOK, SaveSamples, Doing
    <3>2. ~Unlink
      BY <2>3 DEF SaveSamples, Unlink, Doing
    <3> QED BY <1>3, <2>3, <3>1, <3>2
  <2>4. CASE Capture
    <3> SUFFICES ASSUME NEW i \in Images, NEW p \in PartNames, Refer(samples', i)
                 PROVE  Has(i, p)'
      OBVIOUS
    <3>1. Refer(samples, i) \/ i \in Captures[captured + 1]
      BY <1>0, <1>t, <2>4, CapturedSamples
    <3>2. CASE Refer(samples, i)
      <4>1. file'[i][p].here # Missing \/ file'[i][p].staged # Missing
        <5>1. Has(i, p)
          BY <1>0, <3>2 DEF RowsHave
        <5> QED BY <1>0, <2>4, <5>1, CapturedHas DEF Has
      <4> QED BY <4>1 DEF Has
    <3>3. CASE i \in Captures[captured + 1]
      BY <1>0, <2>4, <3>3, CapturedHas DEF Has
    <3> QED BY <3>1, <3>2, <3>3
  <2>5. UNCHANGED samples \/ Capture \/ (SaveSamples /\ samples' = request.rows)
    BY DEF Next, vars, Snapshot, OpenPath, Edit, Send, OutOfRange, LoadAnnotations, FileRevision,
         SaveChecks, SaveReplaces, DeleteReads, StageFile, SaveSamples, Unlink, DeleteReplies,
         Relabel, Crash, Restart
  <2> QED BY <2>1, <2>2, <2>3, <2>4, <2>5
<1>5. StagingOK'
  BY StepStaging
<1> QED BY <1>1, <1>4, <1>5 DEF KeptInv
\* At the start every row has its files.
LEMMA InitKept == Init => KeptInv
<1> SUFFICES ASSUME Init PROVE KeptInv
  OBVIOUS
<1>1. EditorTypeOK /\ DraftsOK
  BY InitTypes, InitDrafts
<1>2. PICK c \in Collected :
        file = [i \in Images |-> IF \E r \in DOMAIN Rows : i \in Rows[r]
                                 THEN [image |-> Here(Pixels), label |-> Here(c)]
                                 ELSE [image |-> Here(Missing), label |-> Here(Missing)]]
  BY DEF Init
<1>3. c # Missing /\ Pixels # Missing
  BY CollectedType DEF Collected, Pixels, Missing
<1>4. RowsHave(samples)
  <2> SUFFICES ASSUME NEW i \in Images, NEW p \in PartNames, Refer(Rows, i) PROVE Has(i, p)
    BY DEF RowsHave, Init
  <2>1. file[i] = [image |-> Here(Pixels), label |-> Here(c)]
    <3>1. \E r \in DOMAIN Rows : i \in Rows[r]
      BY DEF Refer
    <3> QED BY <1>2, <3>1
  <2>2. file[i][p] = Here(IF p = "image" THEN Pixels ELSE c)
    BY <2>1 DEF PartNames
  <2> QED BY <1>3, <2>2 DEF Here, Has
<1>5. StagingOK
  BY DEF Init, Idle, StagingOK
<1> QED BY <1>1, <1>4, <1>5 DEF KeptInv

\* The invariant of everything the editor and its neighbours do.
THEOREM KeptInvariant == Spec => []KeptInv
BY InitKept, StepKept, PTL DEF Spec

\* The state has its type: what is under way names an image and rows that are.
THEOREM EditorTypeCorrect == Spec => []EditorTypeOK
<1>1. KeptInv => EditorTypeOK
  BY DEF KeptInv
<1> QED BY <1>1, KeptInvariant, PTL

\* Whatever fails and wherever the server is killed, an image of a row and its label
\* stand under their names or under their .deleting names (editor.py:319-346).
THEOREM NothingLostHolds == Spec => []NothingLost
<1>1. ASSUME KeptInv PROVE NothingLost
  <2> SUFFICES ASSUME NEW r \in DOMAIN samples, NEW i \in samples[r], NEW p \in {"image", "label"}
               PROVE  file[i][p].here # Missing \/ file[i][p].staged # Missing
    BY DEF NothingLost
  <2>1. samples \in Seq(SUBSET Images) /\ RowsHave(samples)
    BY <1>1 DEF KeptInv, EditorTypeOK
  <2>2. i \in Images /\ Refer(samples, i)
    BY <2>1 DEF Refer
  <2> QED BY <2>1, <2>2 DEF RowsHave, Has, PartNames
<1> QED BY <1>1, KeptInvariant, PTL

-----------------------------------------------------------------------------
(* What a step does to a file and to the request                              *)

\* A step changes the files of the image of the request, of a capture, or a label.
LEMMA StepFiles ==
    ASSUME KeptInv, [Next]_vars, NEW j \in Images
    PROVE  \/ file'[j] = file[j]
           \/ Capture /\ j \in Captures[captured + 1]
           \/ Relabel /\ Exists(j, "image") /\ Exists(j, "label")
           \/ (SaveReplaces \/ StageFile \/ SaveSamples \/ Unlink) /\ j = request.image
<1>0. EditorTypeOK /\ DOMAIN file = Images /\ "label" \in PartNames
  BY DEF KeptInv, EditorTypeOK, PartNames
<1>1. CASE Capture
  BY <1>0, <1>1, CapturedFiles
<1>2. CASE Relabel
  <2>1. PICK i \in Images, c \in Labels :
          /\ Exists(i, "image") /\ file[i]["label"].here \notin {c, Missing}
          /\ file' = [file EXCEPT ![i]["label"].here = c]
    BY <1>2 DEF Relabel
  <2>2. j = i \/ file'[j] = file[j]
    BY <1>0, <2>1
  <2> QED BY <1>2, <2>1, <2>2 DEF Exists
<1>r. ASSUME NEW s, NEW n, RestoreStaged(request.image, s, n), j # request.image
      PROVE  file'[j] = file[j]
  <2>1. PICK back \in SUBSET s :
          file' = [file EXCEPT ![request.image] =
                      [p \in DOMAIN @ |-> IF p \in back THEN Restored(@[p]) ELSE @[p]]]
    BY <1>r DEF RestoreStaged
  <2> QED BY <1>0, <1>r, <2>1
<1>3. CASE SaveReplaces
  <2>1. CASE UNCHANGED file
    BY <2>1
  <2>2. CASE file' = [file EXCEPT ![request.image]["label"].here = request.draft]
    BY <1>0, <1>3, <2>2
  <2> QED BY <1>3, <2>1, <2>2 DEF SaveReplaces
<1>4. CASE StageFile
  <2>1. CASE UNCHANGED file
    BY <2>1
  <2>2. CASE file' = [file EXCEPT ![request.image][Head(request.rest)] = Staged(@)]
    BY <1>0, <1>4, <2>2
  <2>3. CASE \E n : RestoreStaged(request.image, request.staged, n)
    BY <1>4, <1>r, <2>3
  <2> QED BY <1>4, <2>1, <2>2, <2>3 DEF StageFile
<1>5. CASE SaveSamples
  <2>1. CASE UNCHANGED file
    BY <2>1
  <2>2. CASE RestoreStaged(request.image, request.staged, 1)
    BY <1>5, <1>r, <2>2
  <2> QED BY <1>5, <2>1, <2>2 DEF SaveSamples
<1>6. CASE Unlink
  <2>1. PICK p \in request.staged : \/ file' = [file EXCEPT ![request.image][p].staged = Missing]
                                    \/ UNCHANGED file
    BY <1>6 DEF Unlink
  <2> QED BY <1>0, <1>6, <2>1
<1>7. CASE UNCHANGED file
  BY <1>7
<1> QED BY <1>1, <1>2, <1>3, <1>4, <1>5, <1>6, <1>7 DEF Next, vars, Snapshot, OpenPath, Edit, Send,
      OutOfRange, LoadAnnotations, FileRevision, SaveChecks, DeleteReads, DeleteReplies, Crash,
      Restart

Subjects == {"revision", "replace", "stage", "unlink"}

\* What is loaded, saved or deleted is an entry of the list and stays the same.
LEMMA StepSubject ==
    ASSUME KeptInv, [Next]_vars, request'.op \in Subjects
    PROVE  \/ request.op \in Subjects /\ request'.image = request.image
           \/ /\ InRange /\ request'.image = Entry /\ server' = server
              /\ request.op \in {"load", "save", "delete"}
<1> USE RequestOf
<1>0. request \in Requests
  BY DEF KeptInv, EditorTypeOK
<1> DEFINE Deletion == [op : {"stage", "unlink"}, index : Nat, tab : Tabs, image : Images,
                        rows : Seq(SUBSET Images), rest : Rests, staged : SUBSET PartNames]
<1>i. Idle.op \notin Subjects
  BY DEF Idle, Subjects
<1>r. ASSUME NEW s, NEW n, RestoreStaged(request.image, s, n) PROVE FALSE
  BY <1>i, <1>r DEF RestoreStaged
<1>1. CASE LoadAnnotations
  BY <1>1 DEF LoadAnnotations, Doing
<1>2. CASE SaveChecks
  BY <1>2, <1>i DEF SaveChecks, Doing
<1>3. CASE DeleteReads
  <2>1. request' = [op |-> "stage", index |-> request.index, tab |-> Asker, image |-> Entry,
                    rows |-> samples_without_image(Entry), rest |-> Parts, staged |-> {}]
    BY <1>3, <1>i DEF DeleteReads
  <2>2. request'.image = Entry
    BY <2>1
  <2> QED BY <1>3, <2>2 DEF DeleteReads, Doing
<1>4. CASE SaveReplaces
  <2>1. request' = [op |-> "revision", tab |-> Asker, index |-> request.index,
                    image |-> request.image, shown |-> request.draft]
    BY <1>4, <1>i DEF SaveReplaces
  <2> QED BY <1>4, <2>1 DEF SaveReplaces, Doing, Subjects
<1>5. CASE StageFile
  <2>1. request.op = "stage" /\ request \in Deletion
    BY <1>0, <1>5 DEF StageFile, Doing
  <2>2. \/ request' = [request EXCEPT !.rest = Tail(@)]
        \/ request' = [[request EXCEPT !.rest = Tail(@)] EXCEPT !.staged = @ \cup {Head(request.rest)}]
    BY <1>5, <1>r DEF StageFile
  <2>3. request'.image = request.image
    <3> HIDE DEF Rests, PartNames
    <3> QED BY <2>1, <2>2
  <2> QED BY <2>1, <2>3 DEF Subjects
<1>6. CASE SaveSamples
  <2>1. request.op = "stage" /\ request \in Deletion
    BY <1>0, <1>6 DEF SaveSamples, Doing
  <2>2. request' = [request EXCEPT !.op = "unlink"]
    BY <1>6, <1>r DEF SaveSamples
  <2>3. request'.image = request.image
    <3> HIDE DEF Rests, PartNames
    <3> QED BY <2>1, <2>2
  <2> QED BY <2>1, <2>3 DEF Subjects
<1>7. CASE Unlink
  <2>1. request.op = "unlink" /\ request \in Deletion
    BY <1>0, <1>7 DEF Unlink, Doing
  <2>2. PICK p \in request.staged : request' = [request EXCEPT !.staged = @ \ {p}]
    BY <1>7 DEF Unlink
  <2>3. request'.image = request.image
    <3> HIDE DEF Rests, PartNames
    <3> QED BY <2>1, <2>2
  <2> QED BY <2>1, <2>3 DEF Subjects
<1>8. CASE UNCHANGED request
  BY <1>8
<1>9. CASE \E t \in Tabs : Send(t)
  BY <1>9 DEF Send, Subjects
<1>10. CASE OutOfRange \/ FileRevision \/ DeleteReplies \/ Crash
  BY <1>i, <1>10 DEF OutOfRange, FileRevision, DeleteReplies, Crash
<1> QED BY <1>1, <1>2, <1>3, <1>4, <1>5, <1>6, <1>7, <1>8, <1>9, <1>10 DEF Next, vars, Snapshot,
      OpenPath, Edit, Capture, Relabel, Restart

-----------------------------------------------------------------------------
(* Captures yet to come                                                       *)

\* The rows at the start and the captures are all rows there ever are.
LEMMA OwnRows ==
    ASSUME OwnImages
    PROVE  /\ \A r, s \in DOMAIN Rows : r # s => Rows[r] \cap Rows[s] = {}
           /\ \A r, s \in DOMAIN Captures : r # s => Captures[r] \cap Captures[s] = {}
           /\ \A r \in DOMAIN Rows, s \in DOMAIN Captures : Rows[r] \cap Captures[s] = {}
<1> DEFINE n == Len(Rows)
           m == Len(Captures)
<1>1. /\ n \in Nat /\ m \in Nat /\ DOMAIN Rows = 1 .. n /\ DOMAIN Captures = 1 .. m
      /\ DOMAIN AllRows = 1 .. n + m
      /\ \A r \in 1 .. n : AllRows[r] = Rows[r]
      /\ \A r \in 1 .. m : AllRows[n + r] = Captures[r]
  BY RowsType DEF AllRows
<1> HIDE DEF n, m
<1>2. \A r, s \in 1 .. n + m : r # s => AllRows[r] \cap AllRows[s] = {}
  BY <1>1 DEF OwnImages
<1> HIDE DEF AllRows
<1>3. \A r, s \in 1 .. n : r # s => Rows[r] \cap Rows[s] = {}
  BY <1>1, <1>2
<1>4. \A r, s \in 1 .. m : r # s => Captures[r] \cap Captures[s] = {}
  <2> TAKE r, s \in 1 .. m
  <2>1. n + r \in 1 .. n + m /\ n + s \in 1 .. n + m /\ (r # s => n + r # n + s)
    BY <1>1
  <2> QED BY <1>1, <1>2, <2>1
<1>5. \A r \in 1 .. n, s \in 1 .. m : Rows[r] \cap Captures[s] = {}
  <2> TAKE r \in 1 .. n, s \in 1 .. m
  <2>1. r \in 1 .. n + m /\ n + s \in 1 .. n + m /\ r # n + s
    BY <1>1
  <2> QED BY <1>1, <1>2, <2>1
<1> QED BY <1>1, <1>3, <1>4, <1>5

\* What is captured was to come, and what is still to come is none of it.
LEMMA FutureShrinks ==
    ASSUME OwnImages, KeptInv, [Next]_vars, NEW i \in Images
    PROVE  /\ Future(i)' => Future(i)
           /\ Capture /\ Future(i)' => i \notin Captures[captured + 1]
           /\ Capture /\ i \in Captures[captured + 1] => Future(i)
<1>1. captured \in 0 .. Len(Captures) /\ Captures \in Seq(SUBSET Images)
  BY RowsType DEF KeptInv, EditorTypeOK
<1>2. captured' = captured \/ (Capture /\ captured' = captured + 1 /\ captured + 1 \in DOMAIN Captures)
  <2>1. CASE Capture
    BY <1>1, <2>1 DEF Capture
  <2>2. CASE UNCHANGED captured
    BY <2>2
  <2> QED BY <2>1, <2>2 DEF Next, vars, Snapshot, OpenPath, Edit, Send, OutOfRange,
        LoadAnnotations, FileRevision, SaveChecks, SaveReplaces, DeleteReads, StageFile,
        SaveSamples, Unlink, DeleteReplies, Relabel, Crash, Restart
<1>3. Future(i)' => \E r \in DOMAIN Captures : r > captured' /\ i \in Captures[r]
  BY DEF Future
<1>4. Future(i)' => Future(i)
  BY <1>1, <1>2, <1>3 DEF Future
<1>5. ASSUME Capture, Future(i)' PROVE i \notin Captures[captured + 1]
  <2>1. captured' = captured + 1 /\ captured + 1 \in DOMAIN Captures
    BY <1>1, <1>5 DEF Capture
  <2>2. PICK r \in DOMAIN Captures : r > captured + 1 /\ i \in Captures[r]
    BY <1>3, <1>5, <2>1
  <2>3. r # captured + 1
    BY <1>1, <2>2
  <2> QED BY <2>1, <2>2, <2>3, OwnRows
<1>6. ASSUME Capture, i \in Captures[captured + 1] PROVE Future(i)
  <2>1. captured + 1 \in DOMAIN Captures /\ captured + 1 > captured
    BY <1>1, <1>6 DEF Capture
  <2> QED BY <1>6, <2>1 DEF Future
<1> QED BY <1>4, <1>5, <1>6

\* The order of the names, and so the list, holds no image twice.
LEMMA OrderDistinct == Distinct(Order)
<1>1. IsFiniteSet(Images)
  BY EditorAssumption
<1>2. Cardinality(Images) \in Nat /\ ExistsBijection(1 .. Cardinality(Images), Images)
  BY <1>1, FS_CardinalityType
<1>3. PICK f : f \in Bijection(1 .. Cardinality(Images), Images)
  BY <1>2 DEF ExistsBijection
<1>4. f \in [1 .. Cardinality(Images) -> Images] /\ \A a, b \in DOMAIN f : f[a] = f[b] => a = b
  BY <1>3 DEF Bijection, Injection, IsInjective
<1>5. \A a, b \in 1 .. Cardinality(Images) : a # b => f[a] # f[b]
  BY <1>4
<1>6. f \in SetToSeqs(Images)
  BY <1>4, <1>5 DEF SetToSeqs
<1>7. Order \in SetToSeqs(Images)
  BY <1>6 DEF Order
<1> QED BY <1>7 DEF SetToSeqs, Distinct

\* What is discovered is there, and is listed once.
LEMMA DiscoveredDistinct ==
    ASSUME NEW path
    PROVE  /\ Distinct(Discovered(path))
           /\ \A k \in DOMAIN Discovered(path) : Exists(Discovered(path)[k], "image")
<1> DEFINE K == {i \in path : Exists(i, "image")}
           d == Kept(Order, K)
<1>1. d \in Seq(Images \cap K) /\ \E m : Places(Order, K, DOMAIN Order, d, m)
  BY OrderType, KeptOnes
<1>2. PICK m : Places(Order, K, DOMAIN Order, d, m)
  BY <1>1
<1>3. Discovered(path) = d
  BY DEF Discovered
<1> HIDE DEF K, d
<1>4. \A x \in DOMAIN d : m[x] \in DOMAIN Order /\ d[x] = Order[m[x]] /\ d[x] \in K
  BY <1>2 DEF Places
<1>5. \A x, y \in DOMAIN d : m[x] = m[y] => x = y
  BY <1>2 DEF Places
<1>6. Distinct(d)
  BY <1>4, <1>5, OrderDistinct DEF Distinct
<1>7. \A x \in DOMAIN d : Exists(d[x], "image")
  BY <1>4 DEF K
<1> QED BY <1>3, <1>6, <1>7

\* What is left of a list are its other elements.
LEMMA RemoveAtOthers ==
    ASSUME NEW V, NEW s \in Seq(V), NEW k \in DOMAIN s, Distinct(s)
    PROVE  /\ Distinct(RemoveAt(s, k))
           /\ \A x \in DOMAIN RemoveAt(s, k) : \E y \in DOMAIN s \ {k} : RemoveAt(s, k)[x] = s[y]
<1> DEFINE n == Len(s)
           r == RemoveAt(s, k)
           at(x) == IF x < k THEN x ELSE x + 1
<1>1. n \in Nat /\ k \in 1 .. n /\ DOMAIN s = 1 .. n
  OBVIOUS
<1>2. r = SubSeq(s, 1, k - 1) \o SubSeq(s, k + 1, n)
  BY DEF RemoveAt
<1> DEFINE a == SubSeq(s, 1, k - 1)
           b == SubSeq(s, k + 1, n)
<1>3. a \in Seq(V) /\ Len(a) = k - 1 /\ \A x \in 1 .. k - 1 : a[x] = s[x]
  <2>1. \A x \in 1 .. k - 1 : s[x] \in V
    BY <1>1
  <2>2. k - 1 \in Int /\ 1 \in Int
    BY <1>1
  <2> QED BY <1>1, <2>1, <2>2, SubSeqProperties
<1>4. b \in Seq(V) /\ Len(b) = n - k /\ \A x \in 1 .. n - k : b[x] = s[k + x]
  <2>1. \A x \in k + 1 .. n : s[x] \in V
    BY <1>1
  <2>2. k + 1 \in Int /\ n \in Int
    BY <1>1
  <2>3. /\ b \in Seq(V) /\ Len(b) = IF k + 1 <= n THEN n - (k + 1) + 1 ELSE 0
        /\ \A x \in 1 .. n - (k + 1) + 1 : b[x] = s[(k + 1) + x - 1]
    BY <2>1, <2>2, SubSeqProperties
  <2>4. /\ (IF k + 1 <= n THEN n - (k + 1) + 1 ELSE 0) = n - k
        /\ n - (k + 1) + 1 = n - k /\ \A x \in 1 .. n - k : (k + 1) + x - 1 = k + x
    BY <1>1
  <2> HIDE DEF b
  <2> QED BY <2>3, <2>4
<1> HIDE DEF a, b, r
<1>5. Len(r) = n - 1 /\ DOMAIN r = 1 .. n - 1
  BY <1>1, <1>2, <1>3, <1>4 DEF a, b
<1>6. \A x \in 1 .. n - 1 : at(x) \in DOMAIN s \ {k} /\ r[x] = s[at(x)]
  <2> TAKE x \in 1 .. n - 1
  <2>1. r = a \o b
    BY <1>2 DEF a, b
  <2>2. CASE x < k
    BY <1>1, <1>3, <1>4, <2>1, <2>2
  <2>3. CASE x >= k
    <3>1. r[x] = b[x - (k - 1)] /\ x - (k - 1) \in 1 .. n - k
      <4>1. Len(a) = k - 1 /\ Len(b) = n - k /\ x \in 1 .. Len(a) + Len(b) /\ x > Len(a)
        BY <1>1, <1>3, <1>4, <2>3
      <4>2. r[x] = b[x - Len(a)]
        BY <1>3, <1>4, <2>1, <4>1
      <4> QED BY <1>1, <2>3, <4>1, <4>2
    <3>2. k + (x - (k - 1)) = x + 1
      BY <1>1
    <3> QED BY <1>1, <1>4, <2>3, <3>1, <3>2
  <2> QED BY <1>1, <2>2, <2>3
<1>7. \A x, y \in 1 .. n - 1 : at(x) = at(y) => x = y
  BY <1>1
<1> HIDE DEF at
<1>8. Distinct(r)
  BY <1>5, <1>6, <1>7 DEF Distinct
<1> QED BY <1>5, <1>6, <1>8 DEF r

\* A step leaves the list, takes the deleted image out of it, or looks again.
LEMMA StepList ==
    ASSUME KeptInv, [Next]_vars, Distinct(server.entries)
    PROVE  \/ server'.entries = server.entries /\ ~DeleteReplies
           \/ /\ UNCHANGED <<file, request, broken, samples, late, captured>> /\ request = Idle
              /\ Distinct(server'.entries)
              /\ \A k \in DOMAIN server'.entries : Exists(server'.entries[k], "image")
           \/ /\ DeleteReplies /\ Distinct(server'.entries)
              /\ \A k \in DOMAIN server'.entries :
                   \E m \in DOMAIN server.entries \ {request.index} :
                     server'.entries[k] = server.entries[m]
<1>0. /\ server \in [up : BOOLEAN, entries : Seq(Images)] /\ server.entries \in Seq(Images)
      /\ server.up \/ request = Idle
      /\ request.op = "unlink" => request.index \in DOMAIN server.entries
  BY DEF KeptInv, EditorTypeOK
<1>1. CASE DeleteReplies
  <2>1. server'.entries = RemoveAt(server.entries, request.index)
        /\ request.index \in DOMAIN server.entries
    BY <1>0, <1>1 DEF DeleteReplies, Doing
  <2> QED BY <1>0, <1>1, <2>1, RemoveAtOthers
<1>2. CASE Restart
  <2>1. server'.entries = Discovered(Images) /\ request = Idle
        /\ UNCHANGED <<file, request, broken, samples, late, captured>>
    BY <1>0, <1>2 DEF Restart
  <2> QED BY <2>1, DiscoveredDistinct
<1>3. ASSUME NEW t \in Tabs, OpenPath(t)
      PROVE \/ server'.entries = server.entries
            \/ /\ UNCHANGED <<file, request, broken, samples, late, captured>> /\ request = Idle
               /\ \E path : server'.entries = Discovered(path)
  BY <1>0, <1>3 DEF OpenPath, Free
<1>4. CASE ~DeleteReplies /\ \E t \in Tabs : OpenPath(t)
  BY <1>3, <1>4, DiscoveredDistinct
<1>5. CASE ~DeleteReplies /\ UNCHANGED server
  BY <1>5
<1>6. CASE ~DeleteReplies /\ Crash
  BY <1>0, <1>6 DEF Crash
<1>7. \/ DeleteReplies \/ Restart \/ Crash \/ UNCHANGED server \/ \E t \in Tabs : OpenPath(t)
  BY DEF Next, vars, Snapshot, Edit, Send, OutOfRange,
      LoadAnnotations, FileRevision, SaveChecks, SaveReplaces, DeleteReads, StageFile,
      SaveSamples, Unlink, Relabel, Capture
<1>8. CASE ~DeleteReplies
  BY <1>2, <1>4, <1>5, <1>6, <1>7, <1>8
<1> QED BY <1>1, <1>8

\* samples.jsonl grows by a capture, or is replaced by what a deletion prepared.
LEMMA StepRows ==
    ASSUME KeptInv, [Next]_vars
    PROVE  \/ samples' = samples
           \/ Capture
           \/ SaveSamples /\ samples' = request.rows
BY DEF Next, vars, Snapshot, OpenPath, Edit, Send, OutOfRange, LoadAnnotations, FileRevision,
     SaveChecks, SaveReplaces, DeleteReads, StageFile, SaveSamples, Unlink, DeleteReplies,
     Relabel, Crash, Restart

\* What a deletion is about to write stays as it was prepared.
LEMMA StepPrepared ==
    ASSUME KeptInv, [Next]_vars, request'.op = "stage"
    PROVE  \/ /\ request.op = "stage" /\ request'.rows = request.rows
              /\ request'.image = request.image /\ request'.index = request.index
           \/ /\ DeleteReads /\ InRange /\ Cardinality(Refers(samples, Entry)) = 1
              /\ request' = [op |-> "stage", index |-> request.index, tab |-> Asker,
                             image |-> Entry, rows |-> samples_without_image(Entry),
                             rest |-> Parts, staged |-> {}]
<1> USE RequestOf
<1>0. request \in Requests
  BY DEF KeptInv, EditorTypeOK
<1> DEFINE Deletion == [op : {"stage", "unlink"}, index : Nat, tab : Tabs, image : Images,
                        rows : Seq(SUBSET Images), rest : Rests, staged : SUBSET PartNames]
<1>i. Idle.op # "stage"
  BY DEF Idle
<1>r. ASSUME NEW s, NEW n, RestoreStaged(request.image, s, n) PROVE FALSE
  BY <1>i, <1>r DEF RestoreStaged
<1>1. CASE DeleteReads
  BY <1>1, <1>i DEF DeleteReads
<1>2. CASE StageFile
  <2>1. request.op = "stage" /\ request \in Deletion
    BY <1>0, <1>2 DEF StageFile, Doing
  <2>2. \/ request' = [request EXCEPT !.rest = Tail(@)]
        \/ request' = [[request EXCEPT !.rest = Tail(@)] EXCEPT !.staged = @ \cup {Head(request.rest)}]
    BY <1>2, <1>r DEF StageFile
  <2> HIDE DEF Rests, PartNames
  <2> QED BY <2>1, <2>2
<1>3. CASE SaveSamples
  <2>1. request \in Deletion
    BY <1>0, <1>3 DEF SaveSamples, Doing
  <2>2. request' = [request EXCEPT !.op = "unlink"]
    BY <1>3, <1>r DEF SaveSamples
  <2> HIDE DEF Rests, PartNames
  <2> QED BY <2>1, <2>2
<1>4. CASE Unlink
  <2>1. request.op = "unlink" /\ request \in Deletion
    BY <1>0, <1>4 DEF Unlink, Doing
  <2>2. PICK p \in request.staged : request' = [request EXCEPT !.staged = @ \ {p}]
    BY <1>4 DEF Unlink
  <2> HIDE DEF Rests, PartNames
  <2> QED BY <2>1, <2>2
<1>5. CASE UNCHANGED request
  BY <1>5
<1>6. CASE (\E t \in Tabs : Send(t)) \/ OutOfRange \/ FileRevision \/ DeleteReplies \/ Crash
           \/ LoadAnnotations \/ SaveChecks \/ SaveReplaces
  BY <1>i, <1>6 DEF OutOfRange, FileRevision, DeleteReplies, Crash, Send, LoadAnnotations,
       SaveChecks, SaveReplaces
<1> QED BY <1>1, <1>2, <1>3, <1>4, <1>5, <1>6 DEF Next, vars, Snapshot,
      OpenPath, Edit, Capture, Relabel, Restart

\* Nothing reaches the files or the rows of a capture before it is made.
LEMMA StepFuture ==
    ASSUME OwnImages, KeptInv, FutureOK, Distinct(server.entries), [Next]_vars
    PROVE  FutureOK'
<1> SUFFICES ASSUME NEW i \in Images, Future(i)'
             PROVE  /\ \A p \in PartNames : file'[i][p] = [here |-> Missing, staged |-> Missing]
                    /\ ~Refer(samples', i) /\ i \notin late'
                    /\ \A k \in DOMAIN server'.entries : server'.entries[k] # i
                    /\ request'.op \in {"revision", "replace", "stage", "unlink"}
                         => request'.image # i
                    /\ request'.op = "stage" => ~Refer(request'.rows, i)
  BY DEF FutureOK, Refer
<1>1. /\ \A p \in PartNames : file[i][p] = [here |-> Missing, staged |-> Missing]
      /\ ~Refer(samples, i) /\ i \notin late
      /\ \A k \in DOMAIN server.entries : server.entries[k] # i
      /\ request.op \in {"revision", "replace", "stage", "unlink"} => request.image # i
      /\ request.op = "stage" => ~Refer(request.rows, i)
  <2>1. Future(i)
    BY FutureShrinks
  <2> QED BY <2>1 DEF FutureOK
<1>2. Capture => i \notin Captures[captured + 1]
  BY FutureShrinks
<1>3. ~Exists(i, "image") /\ "image" \in PartNames
  BY <1>1 DEF Exists, PartNames
<1>4. file'[i] = file[i]
  <2>1. (SaveReplaces \/ StageFile \/ SaveSamples \/ Unlink) => request.image # i
    BY <1>1 DEF SaveReplaces, StageFile, SaveSamples, Unlink, Doing
  <2> QED BY <1>2, <1>3, <2>1, StepFiles
<1>5. ~Refer(samples', i)
  <2>1. Capture => ~Refer(samples', i)
    BY <1>1, <1>2, CapturedSamples DEF KeptInv
  <2>2. SaveSamples => ~Refer(request.rows, i)
    BY <1>1 DEF SaveSamples, Doing
  <2> QED BY <1>1, <2>1, <2>2, StepRows
<1>6. i \notin late'
  <2>1. late' = late \/ (Capture /\ late' \subseteq late \cup Captures[captured + 1])
    BY DEF Next, vars, Snapshot, OpenPath, Edit, Send, OutOfRange, LoadAnnotations, FileRevision,
     SaveChecks, SaveReplaces, DeleteReads, StageFile, SaveSamples, Unlink, DeleteReplies,
     Relabel, Crash, Restart, Capture
  <2> QED BY <1>1, <1>2, <2>1
<1>7. \A k \in DOMAIN server'.entries : server'.entries[k] # i
  BY <1>1, <1>3, StepList
<1>8. request'.op \in Subjects => request'.image # i
  <2>1. request.op \in Subjects => request.image # i
    BY <1>1 DEF Subjects
  <2>2. InRange => Entry # i
    BY <1>1 DEF InRange, Entry
  <2> QED BY <2>1, <2>2, StepSubject
<1>9. request'.op = "stage" => ~Refer(request'.rows, i)
  <2> SUFFICES ASSUME request'.op = "stage" PROVE ~Refer(request'.rows, i)
    OBVIOUS
  <2>1. CASE request.op = "stage" /\ request'.rows = request.rows
    BY <1>1, <2>1
  <2>2. CASE InRange /\ request' = [op |-> "stage", index |-> request.index, tab |-> Asker,
                             image |-> Entry, rows |-> samples_without_image(Entry),
                             rest |-> Parts, staged |-> {}]
    <3>1. request'.rows = samples_without_image(Entry)
      BY <2>2
    <3>2. Entry \in Images /\ Entry # i /\ samples \in Seq(SUBSET Images)
      BY <1>1, <2>2 DEF InRange, Entry, KeptInv, EditorTypeOK
    <3> QED BY <1>1, <3>1, <3>2, WithoutImage
  <2> QED BY <2>1, <2>2, StepPrepared
<1> QED BY <1>1, <1>4, <1>5, <1>6, <1>7, <1>8, <1>9 DEF Subjects

-----------------------------------------------------------------------------
(* A deletion                                                                 *)

\* Ghosts only grow, and what was captured late is a part of them.
LEMMA StepGhosts ==
    ASSUME [Next]_vars
    PROVE  /\ broken \subseteq broken' /\ late \subseteq late'
           /\ ~Capture => late' = late
           /\ ~(StageFile \/ SaveSamples \/ Crash) => broken' = broken
<1>1. ASSUME NEW i, NEW s, NEW n, RestoreStaged(i, s, n) PROVE broken \subseteq broken'
  BY <1>1 DEF RestoreStaged
<1>2. StageFile \/ SaveSamples => broken \subseteq broken'
  BY <1>1 DEF StageFile, SaveSamples
<1>3. ~(StageFile \/ SaveSamples \/ Crash) => broken' = broken
  BY DEF Next, vars, Snapshot, OpenPath, Edit, Send, OutOfRange, LoadAnnotations, FileRevision,
     SaveChecks, SaveReplaces, DeleteReads, Unlink, DeleteReplies, Relabel, Restart, Capture
<1>4. Crash => broken \subseteq broken'
  BY DEF Crash
<1>5. ~Capture => late' = late
  BY DEF Next, vars, Snapshot, OpenPath, Edit, Send, OutOfRange, LoadAnnotations, FileRevision,
     SaveChecks, SaveReplaces, DeleteReads, StageFile, SaveSamples, Unlink, DeleteReplies,
     Relabel, Crash, Restart
<1>6. Capture => late \subseteq late'
  BY DEF Capture
<1> QED BY <1>2, <1>3, <1>4, <1>5, <1>6

\* While a deletion is under way the server does nothing else.
LEMMA StepDeleting ==
    ASSUME KeptInv, [Next]_vars, Deleting
    PROVE  \/ UNCHANGED <<file, samples, late, broken, request>>
           \/ Capture \/ Relabel \/ StageFile \/ SaveSamples \/ Unlink \/ DeleteReplies \/ Crash
<1> USE DEF Doing, Deleting
<1>1. request # Idle
  BY DEF Idle
<1>2. ASSUME NEW t \in Tabs PROVE ~Snapshot(t) /\ ~OpenPath(t) /\ ~Send(t)
  BY <1>1 DEF Snapshot, OpenPath, Send, Free
<1>3. ASSUME NEW t \in Tabs, Edit(t) PROVE UNCHANGED <<file, samples, late, broken, request>>
  BY <1>3 DEF Edit
<1>4. ~OutOfRange /\ ~LoadAnnotations /\ ~FileRevision /\ ~SaveChecks /\ ~SaveReplaces
      /\ ~DeleteReads
  BY DEF OutOfRange, LoadAnnotations, FileRevision, SaveChecks, SaveReplaces, DeleteReads
<1>5. Restart => UNCHANGED <<file, samples, late, broken, request>>
  BY DEF Restart
<1> QED BY <1>2, <1>3, <1>4, <1>5 DEF Next, vars

\* A file is not there and stays as it is, is staged, or the staged ones go back.
LEMMA StagingStep ==
    ASSUME KeptInv, StageFile
    PROVE  LET i == request.image
               p == Head(request.rest)
           IN  /\ i \in Images /\ request.op = "stage" /\ p \in PartNames
               /\ request.rest \in Rests /\ request.rest # <<>>
               /\ UNCHANGED <<samples, late>>
               /\ \/ /\ request'.op = "stage" /\ request'.image = i
                     /\ request'.rest = Tail(request.rest)
                     /\ \/ ~Exists(i, p) /\ UNCHANGED <<file, broken>>
                           /\ request'.staged = request.staged
                        \/ Exists(i, p) /\ file[i][p].staged = Missing /\ UNCHANGED broken
                           /\ Put(i, p, Staged(file[i][p]))
                           /\ request'.staged = request.staged \cup {p}
                  \/ \E n : RestoreStaged(i, request.staged, n)
<1> USE RequestOf
<1> DEFINE Deletion == [op : {"stage", "unlink"}, index : Nat, tab : Tabs, image : Images,
                        rows : Seq(SUBSET Images), rest : Rests, staged : SUBSET PartNames]
           i == request.image
           p == Head(request.rest)
<1>0. EditorTypeOK /\ request \in Requests
  BY DEF KeptInv, EditorTypeOK
<1>1. request.op = "stage" /\ request \in Deletion /\ request.rest # <<>>
  BY <1>0 DEF StageFile, Doing
<1>2. i \in Images /\ request.rest \in Rests /\ p \in PartNames
  BY <1>1, RestsShrink
<1>3. \/ ~Exists(i, p) /\ UNCHANGED <<file, broken>> /\ request' = [request EXCEPT !.rest = Tail(@)]
      \/ /\ Exists(i, p) /\ file[i][p].staged = Missing /\ UNCHANGED broken
         /\ file' = [file EXCEPT ![i][p] = Staged(@)]
         /\ request' = [[request EXCEPT !.rest = Tail(@)] EXCEPT !.staged = @ \cup {p}]
      \/ \E n : RestoreStaged(i, request.staged, n)
  BY DEF StageFile
<1>4. ASSUME request' = [request EXCEPT !.rest = Tail(@)]
      PROVE  /\ request'.op = "stage" /\ request'.image = i
             /\ request'.rest = Tail(request.rest) /\ request'.staged = request.staged
  <2> HIDE DEF Rests, PartNames
  <2> QED BY <1>1, <1>4
<1>5. ASSUME request' = [[request EXCEPT !.rest = Tail(@)] EXCEPT !.staged = @ \cup {p}]
      PROVE  /\ request'.op = "stage" /\ request'.image = i
             /\ request'.rest = Tail(request.rest) /\ request'.staged = request.staged \cup {p}
  <2> DEFINE s == request.staged \cup {p}
             t == Tail(request.rest)
  <2>1. request' = [request EXCEPT !.rest = t, !.staged = s]
    <3> HIDE DEF Rests, PartNames, p
    <3> QED BY <1>1, <1>5
  <2> HIDE DEF Rests, PartNames, s, t
  <2>2. request'.op = "stage" /\ request'.image = i /\ request'.rest = t /\ request'.staged = s
    BY <1>1, <2>1
  <2> QED BY <2>2 DEF s, t
<1>6. file' = [file EXCEPT ![i][p] = Staged(@)] => Put(i, p, Staged(file[i][p]))
  BY <1>0, <1>2, StagedFile
<1>7. UNCHANGED <<samples, late>>
  BY DEF StageFile
<1> HIDE DEF i, p
<1>8. \/ /\ request'.op = "stage" /\ request'.image = i
         /\ request'.rest = Tail(request.rest)
         /\ \/ ~Exists(i, p) /\ UNCHANGED <<file, broken>>
               /\ request'.staged = request.staged
            \/ Exists(i, p) /\ file[i][p].staged = Missing /\ UNCHANGED broken
               /\ Put(i, p, Staged(file[i][p]))
               /\ request'.staged = request.staged \cup {p}
      \/ \E n : RestoreStaged(i, request.staged, n)
  BY <1>3, <1>4, <1>5, <1>6
<1> QED BY <1>1, <1>2, <1>7, <1>8 DEF i, p

\* If all goes back, it goes back to its name.
LEMMA RestoredAll ==
    ASSUME EditorTypeOK, NEW i \in Images, NEW s, NEW n, RestoreStaged(i, s, n), i \notin broken'
    PROVE  /\ \A q \in PartNames :
                file'[i][q] = IF q \in s THEN Restored(file[i][q]) ELSE file[i][q]
           /\ i \notin broken
<1>1. PICK back \in SUBSET s :
             /\ \A j \in Images, q \in PartNames :
                  file'[j][q] = IF j = i /\ q \in back THEN Restored(file[j][q]) ELSE file[j][q]
             /\ broken' = IF back = s THEN broken ELSE broken \cup {i}
  BY RestoreEffect
<1>2. back = s
  BY <1>1
<1> QED BY <1>1, <1>2

\* A deletion whose files all go back leaves the image as it was.
LEMMA RestoredWhole ==
    ASSUME DeletionInv, request.op = "stage", NEW i \in Images, i = request.image, NEW n,
           RestoreStaged(i, request.staged, n), i \notin broken'
    PROVE  Whole(i)'
<1> USE RequestOf
<1> DEFINE s == request.staged
<1>0. EditorTypeOK /\ request \in Requests
  BY DEF DeletionInv, KeptInv, EditorTypeOK
<1>1. s \subseteq PartNames
  BY <1>0
<1>2. \A p \in s : file[i][p].staged # Missing
  BY DEF DeletionInv, KeptInv, StagingOK
<1>3. /\ \A q \in PartNames : file'[i][q] = IF q \in s THEN Restored(file[i][q]) ELSE file[i][q]
      /\ i \notin broken
  BY <1>0, RestoredAll
<1>4. \A p \in PartNames \ s : file[i][p].here # Missing /\ file[i][p].staged = Missing
  BY <1>3 DEF DeletionInv, DeletionOK
<1> SUFFICES \A q \in PartNames : file'[i][q].here # Missing /\ file'[i][q].staged = Missing
  BY DEF Whole
<1> HIDE DEF s
<1> TAKE q \in PartNames
<1>5. CASE q \in s
  <2>1. file'[i][q] = Restored(file[i][q]) /\ file[i][q].staged # Missing
    BY <1>2, <1>3, <1>5
  <2> QED BY <2>1 DEF Restored
<1>6. CASE q \notin s
  BY <1>3, <1>4, <1>6
<1> QED BY <1>5, <1>6

\* A file that is not being deleted or captured is there after a step as it was before.
LEMMA StepShape ==
    ASSUME DeletionInv, [Next]_vars, NEW j \in Images, j \notin broken,
           ~(Deleting /\ request.image = j), ~(Capture /\ j \in Captures[captured + 1])
    PROVE  \A p \in PartNames : /\ file'[j][p].here = Missing <=> file[j][p].here = Missing
                                /\ file'[j][p].staged = file[j][p].staged
<1>0. KeptInv /\ EditorTypeOK
  BY DEF DeletionInv, KeptInv
<1>1. CASE file'[j] = file[j]
  BY <1>1
<1>2. CASE Relabel
  <2>1. \A q \in PartNames :
          /\ file'[j][q].staged = file[j][q].staged
          /\ file[j][q].here # Missing => file'[j][q].here # Missing
          /\ file[j][q].here = Missing => file'[j][q] = file[j][q]
    BY <1>0, <1>2, RelabelHas
  <2> QED BY <2>1
<1>3. CASE SaveReplaces /\ j = request.image
  <2>1. Exists(j, "image") /\ "image" \in PartNames /\ "label" \in PartNames
    BY <1>3 DEF DeletionInv, EntriesOK, SaveReplaces, Doing, PartNames
  <2>2. Whole(j)
    <3>1. Consistent(samples, j)
      BY DEF DeletionInv, DeletionOK
    <3>2. ~Gone(j)
      BY <2>1 DEF Gone, Exists
    <3> QED BY <3>1, <3>2 DEF Consistent
  <2>3. CASE UNCHANGED file
    BY <2>3
  <2>4. CASE file' = [file EXCEPT ![request.image]["label"].here = request.draft]
    <3>1. request \in Requests /\ request.op = "replace"
      BY <1>0, <1>3 DEF EditorTypeOK, SaveReplaces, Doing
    <3>2. request.draft \in Contents /\ request.draft # Missing
      BY <1>0, <3>1, RequestOf, LinesAreThere DEF KeptInv, DraftsOK
    <3>3. Put(j, "label", [file[j]["label"] EXCEPT !.here = request.draft])
      <4> DEFINE d == request.draft
      <4>1. d \in Contents /\ file' = [file EXCEPT ![j]["label"].here = d]
        BY <1>3, <2>4, <3>2
      <4> HIDE DEF d
      <4>2. Put(j, "label", [file[j]["label"] EXCEPT !.here = d])
        BY <1>0, <4>1, LabelWritten
      <4> QED BY <4>2 DEF d
    <3>4. file[j]["label"] \in File
      <4> HIDE DEF File, PartNames
      <4> QED BY <1>0, <2>1 DEF EditorTypeOK
    <3>5. /\ [file[j]["label"] EXCEPT !.here = request.draft].here = request.draft
          /\ [file[j]["label"] EXCEPT !.here = request.draft].staged = file[j]["label"].staged
      BY <3>4 DEF File
    <3> DEFINE v == [file[j]["label"] EXCEPT !.here = request.draft]
    <3> HIDE DEF v
    <3>6. \A q \in PartNames : file'[j][q] = IF q = "label" THEN v ELSE file[j][q]
      BY <3>3 DEF Put, v
    <3>7. v.here # Missing /\ v.staged = file[j]["label"].staged
      BY <3>2, <3>5 DEF v
    <3> QED BY <2>2, <3>6, <3>7 DEF Whole
  <2> QED BY <1>3, <2>3, <2>4 DEF SaveReplaces
<1>4. ~(StageFile \/ SaveSamples \/ Unlink) \/ j # request.image
  BY DEF StageFile, SaveSamples, Unlink, Doing, Deleting
<1> QED BY <1>0, <1>1, <1>2, <1>3, <1>4, StepFiles

\* Whether an image is whole, or gone, is a matter of which files are there.
LEMMA SameShape ==
    ASSUME NEW j \in Images,
           \A p \in PartNames : /\ file'[j][p].here = Missing <=> file[j][p].here = Missing
                                /\ file'[j][p].staged = file[j][p].staged
    PROVE  (Whole(j)' <=> Whole(j)) /\ (Gone(j)' <=> Gone(j))
BY DEF Whole, Gone

\* A capture is whole and has its one row, and no other row changes what it refers to.
LEMMA CapturedWhole ==
    ASSUME OwnImages, DeletionInv, Capture, NEW j \in Images
    PROVE  /\ j \in Captures[captured + 1] =>
                Whole(j)' /\ Once(samples', j) /\ (request.op = "stage" => j \in late')
           /\ j \notin Captures[captured + 1] =>
                /\ Refer(samples', j) <=> Refer(samples, j)
                /\ Once(samples, j) => Once(samples', j)
           /\ j \in Captures[captured + 1] /\ Deleting => request.image # j
<1>0. KeptInv /\ EditorTypeOK /\ FutureOK /\ [Next]_vars
  BY DEF DeletionInv, KeptInv, Next
<1>1. /\ DOMAIN samples' = DOMAIN samples \cup {Len(samples) + 1}
      /\ Len(samples) + 1 \notin DOMAIN samples
      /\ samples'[Len(samples) + 1] = Captures[captured + 1]
      /\ \A r \in DOMAIN samples : samples'[r] = samples[r]
      /\ \A i : Refer(samples', i) <=> Refer(samples, i) \/ i \in Captures[captured + 1]
  BY <1>0, CapturedSamples
<1>2. ASSUME j \in Captures[captured + 1]
      PROVE  /\ Whole(j)' /\ Once(samples', j) /\ (request.op = "stage" => j \in late')
             /\ Deleting => request.image # j
  <2>1. Future(j)
    BY <1>0, <1>2, FutureShrinks
  <2>2. /\ \A p \in PartNames : file[j][p] = [here |-> Missing, staged |-> Missing]
        /\ ~Refer(samples, j) /\ (Deleting => request.image # j)
    BY <1>0, <2>1 DEF FutureOK, Deleting
  <2>3. \A p \in PartNames : file'[j][p].here # Missing /\ file'[j][p].staged = file[j][p].staged
    BY <1>0, <1>2, CapturedHas
  <2>4. Whole(j)'
    BY <2>2, <2>3 DEF Whole
  <2>5. Once(samples', j)
    BY <1>1, <1>2, <2>2 DEF Once, Refer
  <2>6. request.op = "stage" => j \in late'
    BY <1>2 DEF Capture
  <2> QED BY <2>2, <2>4, <2>5, <2>6
<1>3. ASSUME j \notin Captures[captured + 1], Once(samples, j) PROVE Once(samples', j)
  <2>1. PICK r \in DOMAIN samples : \A s \in DOMAIN samples : j \in samples[s] <=> s = r
    BY <1>3 DEF Once
  <2>2. \A s \in DOMAIN samples' : j \in samples'[s] <=> s = r
    BY <1>1, <1>3, <2>1
  <2> QED BY <1>1, <2>1, <2>2 DEF Once
<1> QED BY <1>1, <1>2, <1>3

\* The images that are not being deleted stay consistent, with any rows that keep to that.
LEMMA StepConsistent ==
    ASSUME DeletionInv, [Next]_vars, NEW j \in Images, j \notin broken,
           ~(Deleting /\ request.image = j), ~(Capture /\ j \in Captures[captured + 1]),
           NEW old, NEW new, Consistent(old, j),
           Refer(new, j) => Refer(old, j), Once(old, j) => Once(new, j)
    PROVE  (Whole(j)' /\ (j \in late' \/ Once(new, j))) \/ (Gone(j)' /\ ~Refer(new, j))
<1>1. (Whole(j)' <=> Whole(j)) /\ (Gone(j)' <=> Gone(j))
  BY StepShape, SameShape
<1>2. late \subseteq late'
  BY StepGhosts
<1> QED BY <1>1, <1>2 DEF Consistent

\* The rows are written, or the staged files go back.
LEMMA SavingStep ==
    ASSUME KeptInv, SaveSamples
    PROVE  /\ request.op = "stage" /\ request.rest = <<>> /\ request.image \in Images
           /\ UNCHANGED late
           /\ \/ /\ samples' = request.rows /\ request'.op = "unlink"
                 /\ request'.image = request.image /\ UNCHANGED <<file, broken>>
              \/ RestoreStaged(request.image, request.staged, 1) /\ UNCHANGED samples
<1> USE RequestOf
<1>1. request.op = "stage" /\ request.rest = <<>> /\ request \in Requests /\ UNCHANGED late
  BY DEF SaveSamples, Doing, KeptInv, EditorTypeOK
<1>2. request \in [op : {"stage", "unlink"}, index : Nat, tab : Tabs, image : Images,
                   rows : Seq(SUBSET Images), rest : Rests, staged : SUBSET PartNames]
  BY <1>1
<1>3. request.image \in Images
  BY <1>2
<1>4. request' = [request EXCEPT !.op = "unlink"] =>
        request'.op = "unlink" /\ request'.image = request.image
  <2> HIDE DEF Rests, PartNames
  <2> QED BY <1>2
<1> QED BY <1>1, <1>3, <1>4 DEF SaveSamples

\* While staged files are removed the rows stay, and so does what is deleted.
LEMMA UnlinkingStep ==
    ASSUME KeptInv, Unlink
    PROVE  /\ request.op = "unlink" /\ request'.op = "unlink" /\ request.image \in Images
           /\ request'.image = request.image /\ UNCHANGED <<samples, late, broken>>
<1> USE RequestOf
<1>1. request.op = "unlink" /\ request \in Requests /\ UNCHANGED <<samples, late, broken>>
  BY DEF Unlink, Doing, KeptInv, EditorTypeOK
<1>2. request \in [op : {"stage", "unlink"}, index : Nat, tab : Tabs, image : Images,
                   rows : Seq(SUBSET Images), rest : Rests, staged : SUBSET PartNames]
  BY <1>1
<1>3. PICK p \in request.staged : request' = [request EXCEPT !.staged = @ \ {p}]
  BY DEF Unlink
<1> DEFINE s == request.staged \ {p}
<1>4. request' = [request EXCEPT !.staged = s]
  <2> HIDE DEF Rests, PartNames
  <2> QED BY <1>2, <1>3
<1> HIDE DEF Rests, PartNames, s
<1> QED BY <1>1, <1>2, <1>4

\* A deletion ends with the image whole, gone, or left staged.
LEMMA DeletionEnds ==
    ASSUME OwnImages, DeletionInv, [Next]_vars, NEW i \in Images, i \notin broken',
           Deleting, request.image = i, ~(request'.op \in {"stage", "unlink"} /\ request'.image = i)
    PROVE  Consistent(samples, i)'
<1>0. KeptInv /\ i \notin broken
  BY StepGhosts DEF DeletionInv
<1>1. request.op = "stage" => i \in late \/ Once(samples, i)
  BY <1>0 DEF DeletionInv, DeletionOK
<1>2. request.op = "unlink" => Gone(i) /\ ~Refer(samples, i)
  BY <1>0 DEF DeletionInv, DeletionOK
<1>3. ASSUME NEW n, RestoreStaged(i, request.staged, n), request.op = "stage",
             UNCHANGED <<samples, late>>
      PROVE  Consistent(samples, i)'
  <2>1. Whole(i)'
    BY <1>3, RestoredWhole
  <2> QED BY <1>1, <1>3, <2>1 DEF Consistent, Once
<1>4. CASE StageFile
  <2>1. /\ request.op = "stage" /\ UNCHANGED <<samples, late>>
        /\ \/ request'.op = "stage" /\ request'.image = i
           \/ \E n : RestoreStaged(i, request.staged, n)
    BY <1>0, <1>4, StagingStep
  <2> QED BY <1>3, <2>1
<1>5. CASE SaveSamples
  BY <1>0, <1>3, <1>5, SavingStep
<1>6. CASE Unlink
  BY <1>0, <1>6, UnlinkingStep
<1>7. CASE DeleteReplies
  <2>1. request.op = "unlink" /\ UNCHANGED <<file, samples, late>>
    BY <1>7 DEF DeleteReplies, Doing
  <2> QED BY <1>2, <2>1 DEF Consistent, Gone, Refer
<1>8. CASE Crash
  BY <1>8 DEF Crash, Deleting
<1>9. CASE UNCHANGED request
  BY <1>9 DEF Deleting
<1> QED BY <1>0, <1>4, <1>5, <1>6, <1>7, <1>8, <1>9, StepDeleting DEF Capture, Relabel

\* What is not being deleted stays consistent.
LEMMA StepOthers ==
    ASSUME OwnImages, DeletionInv, [Next]_vars, NEW i \in Images, i \notin broken',
           ~(request'.op \in {"stage", "unlink"} /\ request'.image = i)
    PROVE  Consistent(samples, i)'
<1>0. KeptInv /\ i \notin broken
  BY StepGhosts DEF DeletionInv
<1>1. CASE Deleting /\ request.image = i
  BY <1>1, DeletionEnds
<1>2. CASE ~(Deleting /\ request.image = i)
  <2>1. Consistent(samples, i)
    BY <1>0, <1>2 DEF DeletionInv, DeletionOK
  <2> SUFFICES (Whole(i)' /\ (i \in late' \/ Once(samples', i))) \/ (Gone(i)' /\ ~Refer(samples', i))
    BY DEF Consistent, Once, Refer
  <2>2. CASE Capture
    <3>1. CASE i \in Captures[captured + 1]
      BY <2>2, <3>1, CapturedWhole
    <3>2. CASE i \notin Captures[captured + 1]
      <4>1. (Refer(samples', i) => Refer(samples, i)) /\ (Once(samples, i) => Once(samples', i))
        BY <2>2, <3>2, CapturedWhole
      <4> QED BY <1>0, <1>2, <2>1, <3>2, <4>1, StepConsistent
    <3> QED BY <3>1, <3>2
  <2>3. CASE ~Capture /\ samples' = samples
    BY <1>0, <1>2, <2>1, <2>3, StepConsistent
  <2>4. CASE SaveSamples /\ samples' = request.rows
    <3>1. request.op = "stage" /\ ~Capture
      BY <1>0, <2>4, SavingStep DEF SaveSamples, Capture, RestoreStaged, Doing
    <3>2. Consistent(request.rows, i)
      BY <1>0, <1>2, <3>1 DEF DeletionInv, DeletionOK, Deleting
    <3> QED BY <1>0, <1>2, <2>4, <3>1, <3>2, StepConsistent
  <2> QED BY <1>0, <2>2, <2>3, <2>4, StepRows
<1> QED BY <1>1, <1>2

\* What a deletion reads first is an image that is whole.
LEMMA ReadWhole ==
    ASSUME DeletionInv, DeleteReads, InRange, Cardinality(Refers(samples, Entry)) = 1
    PROVE  /\ Entry \in Images /\ Refer(samples, Entry) /\ request.op = "delete"
           /\ Entry \notin broken => Whole(Entry) /\ (Entry \in late \/ Once(samples, Entry))
           /\ UNCHANGED <<file, samples, late, broken, server>>
<1>1. Entry \in Images /\ request.op = "delete" /\ UNCHANGED <<file, samples, late, broken, server>>
  BY DEF DeletionInv, KeptInv, EditorTypeOK, InRange, Entry, DeleteReads, Doing
<1>2. Refers(samples, Entry) # {}
  BY FS_EmptySet
<1>3. Refer(samples, Entry)
  BY <1>2 DEF Refers, Refer
<1>4. Entry \notin broken => Consistent(samples, Entry)
  BY <1>1 DEF DeletionInv, DeletionOK, Deleting
<1> QED BY <1>1, <1>3, <1>4 DEF Consistent

\* The rows a deletion is about to write keep to what the other images are.
LEMMA StepPreparedRows ==
    ASSUME OwnImages, DeletionInv, [Next]_vars, request'.op = "stage",
           NEW i \in Images, i \notin broken', request'.image # i
    PROVE  Consistent(request.rows, i)'
<1>0. KeptInv /\ i \notin broken /\ samples \in Seq(SUBSET Images)
  BY StepGhosts DEF DeletionInv, KeptInv, EditorTypeOK
<1> DEFINE new == request'.rows
<1> SUFFICES (Whole(i)' /\ (i \in late' \/ Once(new, i))) \/ (Gone(i)' /\ ~Refer(new, i))
  BY DEF Consistent, Once, Refer
<1>1. CASE /\ request.op = "stage" /\ request'.rows = request.rows /\ request'.image = request.image
  <2>1. Consistent(request.rows, i) /\ ~(Deleting /\ request.image = i)
    BY <1>0, <1>1 DEF DeletionInv, DeletionOK
  <2>2. CASE Capture /\ i \in Captures[captured + 1]
    BY <1>1, <2>2, CapturedWhole
  <2>3. CASE ~(Capture /\ i \in Captures[captured + 1])
    <3>1. new = request.rows
      BY <1>1
    <3> HIDE DEF new
    <3> QED BY <1>0, <2>1, <2>3, <3>1, StepConsistent
  <2> QED BY <2>2, <2>3
<1>2. CASE /\ DeleteReads /\ InRange /\ Cardinality(Refers(samples, Entry)) = 1
           /\ request' = [op |-> "stage", index |-> request.index, tab |-> Asker,
                          image |-> Entry, rows |-> samples_without_image(Entry),
                          rest |-> Parts, staged |-> {}]
  <2>1. Entry \in Images /\ request.op = "delete"
    BY <1>2, ReadWhole
  <2>2. new = samples_without_image(Entry) /\ i # Entry
    BY <1>2
  <2>3. Consistent(samples, i) /\ ~Deleting
    BY <1>0, <2>1 DEF DeletionInv, DeletionOK, Deleting
  <2>4. (Refer(new, i) => Refer(samples, i)) /\ (Once(samples, i) => Once(new, i))
    BY <1>0, <2>1, <2>2, WithoutImage
  <2>5. ~Capture
    BY <1>2, <2>1 DEF Capture
  <2> HIDE DEF new
  <2> QED BY <1>0, <2>3, <2>4, <2>5, StepConsistent
<1> QED BY <1>0, <1>1, <1>2, StepPrepared

\* Of the image being deleted, the files not yet staged are as they were.
LEMMA StepStaged ==
    ASSUME OwnImages, DeletionInv, [Next]_vars, request'.op = "stage",
           NEW i \in Images, request'.image = i, i \notin broken'
    PROVE  /\ i \in late' \/ Once(samples', i)
           /\ request'.staged = PartNames \ Elements(request'.rest)
           /\ \A p \in Elements(request'.rest) : file'[i][p].here # Missing
                                                 /\ file'[i][p].staged = Missing
           /\ \A p \in request'.staged : file'[i][p].here = Missing
<1> USE RequestOf
<1>0. KeptInv /\ EditorTypeOK /\ i \notin broken
  BY StepGhosts DEF DeletionInv, KeptInv
<1> DEFINE Goal == /\ i \in late' \/ Once(samples', i)
                   /\ request'.staged = PartNames \ Elements(request'.rest)
                   /\ \A p \in Elements(request'.rest) : file'[i][p].here # Missing
                                                 /\ file'[i][p].staged = Missing
                   /\ \A p \in request'.staged : file'[i][p].here = Missing
<1>1. CASE /\ DeleteReads /\ InRange /\ Cardinality(Refers(samples, Entry)) = 1
           /\ request' = [op |-> "stage", index |-> request.index, tab |-> Asker,
                          image |-> Entry, rows |-> samples_without_image(Entry),
                          rest |-> Parts, staged |-> {}]
  <2>1. request'.rest = <<"image", "label">> /\ request'.staged = {} /\ i = Entry
    BY <1>1 DEF Parts
  <2>2. Elements(<<"image", "label">>) = PartNames
    BY DEF Elements, PartNames
  <2>3. Whole(i) /\ (i \in late \/ Once(samples, i)) /\ UNCHANGED <<file, samples, late>>
    BY <1>0, <1>1, <2>1, ReadWhole
  <2> QED BY <2>1, <2>2, <2>3 DEF Whole
<1>2. CASE request.op = "stage" /\ request'.image = request.image
  <2>1. /\ i \in late \/ Once(samples, i)
        /\ request.staged = PartNames \ Elements(request.rest)
        /\ \A p \in Elements(request.rest) : file[i][p].here # Missing /\ file[i][p].staged = Missing
        /\ \A p \in request.staged : file[i][p].here = Missing
    BY <1>0, <1>2 DEF DeletionInv, DeletionOK, Remaining
  <2>2. CASE UNCHANGED <<file, samples, late, broken, request>>
    BY <2>1, <2>2
  <2>3. Elements(request.rest) \subseteq PartNames /\ request.staged \subseteq PartNames
    <3>1. request.rest \in Rests /\ request.staged \subseteq PartNames
      BY <1>0, <1>2 DEF EditorTypeOK
    <3>2. \A r \in Rests : Elements(r) \subseteq PartNames
      BY DEF Rests, Elements, PartNames
    <3> QED BY <3>1, <3>2
  <2>4. CASE Capture
    <3>1. i \notin Captures[captured + 1] /\ request' = request
      BY <1>2, <2>4, CapturedWhole DEF Deleting, Capture
    <3>2. file'[i] = file[i]
      BY <1>0, <2>4, <3>1, CapturedFiles
    <3>3. i \in late' \/ Once(samples', i)
      BY <2>1, <2>4, <3>1, CapturedWhole, StepGhosts
    <3> QED BY <2>1, <3>1, <3>2, <3>3
  <2>5. CASE Relabel
    <3>1. \A q \in PartNames :
            /\ file'[i][q].staged = file[i][q].staged
            /\ file[i][q].here # Missing => file'[i][q].here # Missing
            /\ file[i][q].here = Missing => file'[i][q] = file[i][q]
      BY <1>0, <2>5, RelabelHas
    <3>2. UNCHANGED <<samples, late, request>>
      BY <2>5 DEF Relabel
    <3> HIDE DEF Elements, PartNames
    <3> QED BY <2>1, <2>3, <3>1, <3>2
  <2>6. CASE StageFile
    <3> DEFINE p == Head(request.rest)
               t == Tail(request.rest)
    <3>1. /\ p \in PartNames /\ request.rest \in Rests /\ request.rest # <<>>
          /\ UNCHANGED <<samples, late>>
          /\ \/ /\ request'.rest = t
                /\ \/ ~Exists(i, p) /\ UNCHANGED <<file, broken>>
                      /\ request'.staged = request.staged
                   \/ Exists(i, p) /\ file[i][p].staged = Missing /\ UNCHANGED broken
                      /\ Put(i, p, Staged(file[i][p]))
                      /\ request'.staged = request.staged \cup {p}
             \/ \E n : RestoreStaged(i, request.staged, n)
      BY <1>0, <1>2, <2>6, StagingStep
    <3>2. ~ \E n : RestoreStaged(i, request.staged, n)
      <4>1. Idle.op # "stage"
        BY DEF Idle
      <4> QED BY <4>1 DEF RestoreStaged
    <3>3. Elements(request.rest) = {p} \cup Elements(t) /\ p \notin Elements(t)
          /\ Elements(request.rest) \subseteq PartNames
      BY <3>1, RestsShrink
    <3> HIDE DEF p, t
    <3>4. Exists(i, p)
      BY <2>1, <3>3 DEF Exists
    <3>5. /\ request'.rest = t /\ request'.staged = request.staged \cup {p}
          /\ Put(i, p, Staged(file[i][p]))
      BY <3>1, <3>2, <3>4
    <3> HIDE DEF Elements
    <3>6. request'.staged = PartNames \ Elements(t)
      BY <2>1, <3>3, <3>5
    <3>7. \A q \in Elements(t) : file'[i][q].here # Missing /\ file'[i][q].staged = Missing
      <4> TAKE q \in Elements(t)
      <4>1. q # p /\ q \in PartNames /\ q \in Elements(request.rest)
        BY <3>3
      <4>2. file'[i][q] = file[i][q]
        BY <3>5, <4>1 DEF Put
      <4> QED BY <2>1, <4>1, <4>2
    <3>8. \A q \in request'.staged : file'[i][q].here = Missing
      <4> TAKE q \in request'.staged
      <4>1. CASE q = p
        <5>1. file'[i][p] = Staged(file[i][p])
          BY <3>1, <3>5 DEF Put
        <5> QED BY <4>1, <5>1 DEF Staged
      <4>2. CASE q # p
        <5>1. q \in request.staged /\ q \in PartNames
          BY <2>3, <3>5, <4>2
        <5>2. file'[i][q] = file[i][q]
          BY <3>5, <4>2, <5>1 DEF Put
        <5> QED BY <2>1, <5>1, <5>2
      <4> QED BY <4>1, <4>2
    <3>9. i \in late' \/ Once(samples', i)
      BY <2>1, <3>1
    <3> QED BY <3>5, <3>6, <3>7, <3>8, <3>9
  <2>7. ~SaveSamples /\ ~Unlink /\ ~DeleteReplies /\ ~Crash
    <3>1. Idle.op # "stage"
      BY DEF Idle
    <3>2. ~SaveSamples
      BY <1>0, <3>1, SavingStep DEF RestoreStaged
    <3>3. ~Unlink
      BY <1>0, <1>2, UnlinkingStep
    <3> QED BY <3>1, <3>2, <3>3 DEF DeleteReplies, Crash
  <2> HIDE DEF Goal
  <2>8. Goal
    BY <1>0, <1>2, <2>2, <2>4, <2>5, <2>6, <2>7, StepDeleting DEF Deleting, Goal
  <2> QED BY <2>8 DEF Goal
<1> QED BY <1>0, <1>1, <1>2, StepPrepared

\* The server goes from loading to saving and from staging to unlinking, never across.
LEMMA StepOps ==
    ASSUME KeptInv, [Next]_vars
    PROVE  /\ request'.op = "unlink" => request.op \in {"stage", "unlink"}
           /\ request'.op \in {"revision", "replace"} => request.op \notin {"stage", "unlink"}
<1>i. Idle.op = "none"
  BY DEF Idle
<1>1. ASSUME Deleting PROVE request'.op \notin {"revision", "replace"}
  <2>1. StageFile => request'.op \in {"stage", "none"}
    BY <1>i, StagingStep DEF RestoreStaged
  <2>2. SaveSamples => request'.op \in {"unlink", "none"}
    BY <1>i, SavingStep DEF RestoreStaged
  <2>3. Unlink => request'.op = "unlink"
    BY UnlinkingStep
  <2>4. DeleteReplies \/ Crash => request'.op = "none"
    BY <1>i DEF DeleteReplies, Crash
  <2>5. Capture \/ Relabel => request' = request
    BY DEF Capture, Relabel
  <2> QED BY <1>1, <2>1, <2>2, <2>3, <2>4, <2>5, StepDeleting DEF Deleting
<1>2. ASSUME ~Deleting PROVE request'.op # "unlink"
  <2>1. ~StageFile /\ ~SaveSamples /\ ~Unlink /\ ~DeleteReplies
    BY <1>2 DEF StageFile, SaveSamples, Unlink, DeleteReplies, Doing, Deleting
  <2>2. DeleteReads => request'.op # "unlink"
    BY <1>i DEF DeleteReads
  <2>3. UNCHANGED request => request'.op # "unlink"
    BY <1>2 DEF Deleting
  <2> QED BY <1>i, <2>1, <2>2, <2>3 DEF Next, vars, Snapshot, OpenPath, Edit, Send, OutOfRange,
        LoadAnnotations, FileRevision, SaveChecks, SaveReplaces, Relabel, Crash, Restart, Capture
<1> QED BY <1>1, <1>2 DEF Deleting

\* What is deleted is the entry the request names, until the request is answered.
LEMMA StepListed ==
    ASSUME KeptInv, EntriesOK, [Next]_vars, request'.op \in {"stage", "unlink"}
    PROVE  server'.entries[request'.index] = request'.image
<1> USE RequestOf
<1>i. Idle.op = "none"
  BY DEF Idle
<1> DEFINE Deletion == [op : {"stage", "unlink"}, index : Nat, tab : Tabs, image : Images,
                        rows : Seq(SUBSET Images), rest : Rests, staged : SUBSET PartNames]
<1>1. CASE Deleting
  <2>1. request \in Deletion /\ server.entries[request.index] = request.image
    BY <1>1 DEF Deleting, KeptInv, EditorTypeOK, EntriesOK
  <2>2. ~DeleteReplies /\ ~Crash
    BY <1>i DEF DeleteReplies, Crash
  <2>3. server'.entries = server.entries
    <3>1. request # Idle
      BY <1>1, <1>i DEF Deleting
    <3> QED BY <2>2, <3>1, StepList DEF EntriesOK
  <2>4. request'.index = request.index /\ request'.image = request.image
    <3>1. UNCHANGED request \/ StageFile \/ SaveSamples \/ Unlink
      BY <1>1, <2>2, StepDeleting DEF Capture, Relabel
    <3>2. ASSUME NEW s, NEW n, RestoreStaged(request.image, s, n) PROVE FALSE
      BY <1>i, <3>2 DEF RestoreStaged
    <3>3. \/ UNCHANGED request
          \/ request' = [request EXCEPT !.rest = Tail(@)]
          \/ request' = [[request EXCEPT !.rest = Tail(@)] EXCEPT !.staged = @ \cup {Head(request.rest)}]
          \/ request' = [request EXCEPT !.op = "unlink"]
          \/ \E p \in request.staged : request' = [request EXCEPT !.staged = @ \ {p}]
      BY <3>1, <3>2 DEF StageFile, SaveSamples, Unlink
    <3> HIDE DEF Rests, PartNames
    <3> QED BY <2>1, <3>3
  <2> QED BY <2>1, <2>3, <2>4
<1>2. CASE ~Deleting
  <2>1. request'.op = "stage"
    BY <1>2, StepOps DEF Deleting
  <2>2. /\ DeleteReads
        /\ request' = [op |-> "stage", index |-> request.index, tab |-> Asker,
                             image |-> Entry, rows |-> samples_without_image(Entry),
                             rest |-> Parts, staged |-> {}]
    BY <1>2, <2>1, StepPrepared DEF Deleting
  <2>3. request'.index = request.index /\ request'.image = Entry
    BY <2>2
  <2> QED BY <2>2, <2>3 DEF Entry, DeleteReads
<1> QED BY <1>1, <1>2

\* Once its row is gone, so is the image.
LEMMA StepUnlinked ==
    ASSUME OwnImages, DeletionInv, [Next]_vars, request'.op = "unlink",
           NEW i \in Images, request'.image = i, i \notin broken'
    PROVE  Gone(i)' /\ ~Refer(samples', i)
<1> USE RequestOf
<1>0. KeptInv /\ EditorTypeOK /\ i \notin broken
  BY StepGhosts DEF DeletionInv, KeptInv
<1>1. Deleting /\ request.image = i
  <2>1. request.op \in {"stage", "unlink"}
    BY <1>0, StepOps
  <2>2. request'.image = request.image
    BY <1>0, <2>1, StepSubject DEF Subjects
  <2> QED BY <2>1, <2>2 DEF Deleting
<1>2. ASSUME request.op = "unlink" PROVE Gone(i) /\ ~Refer(samples, i)
  BY <1>0, <1>1, <1>2 DEF DeletionInv, DeletionOK
<1>3. CASE UNCHANGED <<file, samples, late, broken, request>>
  BY <1>2, <1>3 DEF Gone
<1>4. CASE Capture
  <2>1. i \notin Captures[captured + 1] /\ request' = request
    BY <1>1, <1>4, CapturedWhole DEF Capture
  <2>2. file'[i] = file[i]
    BY <1>0, <1>4, <2>1, CapturedFiles
  <2>3. Refer(samples', i) <=> Refer(samples, i)
    BY <1>4, <2>1, CapturedWhole
  <2> QED BY <1>2, <2>1, <2>2, <2>3 DEF Gone
<1>5. CASE Relabel
  <2>1. request' = request /\ samples' = samples
    BY <1>5 DEF Relabel
  <2>2. \A q \in PartNames : file[i][q].here = Missing => file'[i][q] = file[i][q]
    BY <1>0, <1>5, RelabelHas
  <2> QED BY <1>2, <2>1, <2>2 DEF Gone
<1>6. CASE Unlink
  <2>1. request.op = "unlink" /\ samples' = samples
    BY <1>0, <1>6, UnlinkingStep
  <2>2. \A q \in PartNames : file'[i][q].here = file[i][q].here
    BY <1>0, <1>6, UnlinkKeeps
  <2> QED BY <1>2, <2>1, <2>2 DEF Gone
<1>7. CASE SaveSamples
  <2>1. Idle.op # "unlink"
    BY DEF Idle
  <2>2. request.op = "stage" /\ request.rest = <<>> /\ samples' = request.rows /\ UNCHANGED file
    BY <1>0, <1>7, <2>1, SavingStep DEF RestoreStaged
  <2>3. Elements(<<>>) = {}
    BY DEF Elements
  <2>4. request.staged = PartNames /\ \A p \in request.staged : file[i][p].here = Missing
    BY <1>0, <1>1, <2>2, <2>3 DEF DeletionInv, DeletionOK, Remaining
  <2>5. ~Refer(request.rows, i)
    BY <1>0, <1>1, <2>2 DEF KeptInv, StagingOK
  <2> QED BY <2>2, <2>4, <2>5 DEF Gone
<1>8. CASE StageFile
  <2>1. Idle.op # "unlink"
    BY DEF Idle
  <2> QED BY <1>0, <1>8, <2>1, StagingStep DEF RestoreStaged
<1>9. ~DeleteReplies /\ ~Crash
  <2>1. Idle.op # "unlink"
    BY DEF Idle
  <2> QED BY <2>1 DEF DeleteReplies, Crash
<1> QED BY <1>0, <1>1, <1>3, <1>4, <1>5, <1>6, <1>7, <1>8, <1>9, StepDeleting

\* Nothing takes the list away from what is loaded, saved or deleted.
LEMMA StepEntries ==
    ASSUME OwnImages, DeletionInv, [Next]_vars
    PROVE  EntriesOK'
<1> USE RequestOf
<1>0. /\ KeptInv /\ EditorTypeOK /\ EntriesOK /\ Distinct(server.entries)
      /\ request \in Requests /\ server.entries \in Seq(Images)
  BY DEF DeletionInv, EntriesOK, KeptInv, EditorTypeOK
<1>g. broken \subseteq broken'
  BY StepGhosts
\* What is there, and not being deleted, stays there.
<1>1. ASSUME NEW i \in Images, i \in broken \/ Exists(i, "image"), ~(Deleting /\ request.image = i)
      PROVE  i \in broken' \/ Exists(i, "image")'
  <2>1. CASE i \in broken
    BY <1>g, <2>1
  <2>2. CASE i \notin broken /\ Capture /\ i \in Captures[captured + 1]
    BY <1>0, <2>2, CapturedHas DEF Exists, PartNames
  <2>3. CASE i \notin broken /\ ~(Capture /\ i \in Captures[captured + 1])
    <3>1. file'[i]["image"].here = Missing <=> file[i]["image"].here = Missing
      BY <1>1, <2>3, StepShape DEF PartNames
    <3> QED BY <1>1, <2>3, <3>1 DEF Exists
  <2> QED BY <2>1, <2>2, <2>3
\* What is being deleted still is, or it is back, or it is not in the list.
<1>2. ASSUME NEW i \in Images, Deleting, request.image = i, ~DeleteReplies,
             ~(request'.op \in {"stage", "unlink"} /\ request'.image = i)
      PROVE  i \in broken' \/ Exists(i, "image")'
  <2> SUFFICES ASSUME i \notin broken' PROVE Exists(i, "image")'
    OBVIOUS
  <2>1. CASE StageFile
    <3>1. PICK n : RestoreStaged(i, request.staged, n)
      BY <1>0, <1>2, <2>1, StagingStep
    <3>2. request.op = "stage"
      BY <1>0, <2>1, StagingStep
    <3>3. Whole(i)'
      BY <1>2, <3>1, <3>2, RestoredWhole
    <3> QED BY <3>3 DEF Whole, Exists, PartNames
  <2>2. CASE SaveSamples
    <3>1. RestoreStaged(i, request.staged, 1) /\ request.op = "stage"
      BY <1>0, <1>2, <2>2, SavingStep
    <3>3. Whole(i)'
      BY <1>2, <3>1, RestoredWhole
    <3> QED BY <3>3 DEF Whole, Exists, PartNames
  <2>3. CASE Unlink
    BY <1>0, <1>2, <2>3, UnlinkingStep
  <2>4. CASE Crash
    BY <1>2, <2>4 DEF Crash, Deleting
  <2>5. CASE UNCHANGED request
    BY <1>2, <2>5 DEF Deleting
  <2> QED BY <1>0, <1>2, <2>1, <2>2, <2>3, <2>4, <2>5, StepDeleting DEF Capture, Relabel
<1>3. Distinct(server'.entries)
  BY <1>0, StepList
<1>4. request'.op \in {"stage", "unlink"} => server'.entries[request'.index] = request'.image
  BY <1>0, StepListed
<1>5. ASSUME NEW k \in DOMAIN server'.entries, NEW i, i = server'.entries[k]
      PROVE  \/ i \in broken'
             \/ request'.op \in {"stage", "unlink"} /\ i = request'.image
             \/ file'[i]["image"].here # Missing
  <2>1. CASE server'.entries = server.entries /\ ~DeleteReplies
    <3>1. i \in Images /\ (i \in broken \/ (Deleting /\ i = request.image) \/ Exists(i, "image"))
      BY <1>0, <1>5, <2>1 DEF EntriesOK
    <3>2. CASE ~(Deleting /\ request.image = i)
      <4>1. i \in broken \/ Exists(i, "image")
        BY <3>1, <3>2
      <4>2. \A m \in Images : (m \in broken \/ Exists(m, "image")) /\ ~(Deleting /\ request.image = m)
                => m \in broken' \/ file'[m]["image"].here # Missing
        BY <1>1 DEF Exists
      <4> QED BY <3>1, <3>2, <4>1, <4>2
    <3>3. CASE Deleting /\ request.image = i
      <4>1. \A m \in Images : Deleting /\ request.image = m =>
                 \/ request'.op \in {"stage", "unlink"} /\ request'.image = m
                 \/ m \in broken' \/ file'[m]["image"].here # Missing
        BY <1>2, <2>1 DEF Exists
      <4> QED BY <3>1, <3>3, <4>1
    <3> QED BY <3>2, <3>3
  <2>2. CASE UNCHANGED <<file>> /\ Exists(i, "image")
    BY <2>2 DEF Exists
  <2>3. CASE DeleteReplies /\ \E m \in DOMAIN server.entries \ {request.index} :
                server'.entries[k] = server.entries[m]
    <3>1. PICK m \in DOMAIN server.entries \ {request.index} : i = server.entries[m]
      BY <1>5, <2>3
    <3>2. request.op = "unlink" /\ server.entries[request.index] = request.image
          /\ request.index \in DOMAIN server.entries /\ UNCHANGED <<file, broken>>
      BY <1>0, <2>3 DEF DeleteReplies, Doing, EntriesOK, Deleting, EditorTypeOK
    <3>3. i # request.image
      BY <1>0, <3>1, <3>2 DEF Distinct
    <3>4. i \in broken \/ Exists(i, "image")
      BY <1>0, <3>1, <3>3 DEF EntriesOK
    <3> QED BY <3>2, <3>4 DEF Exists
  <2> QED BY <1>0, <1>5, <2>1, <2>2, <2>3, StepList
<1>6. ASSUME request'.op \in {"revision", "replace"}, NEW i, i = request'.image
      PROVE  i \in broken' \/ file'[i]["image"].here # Missing
  <2>0. \A m \in Images : (m \in broken \/ Exists(m, "image")) /\ ~Deleting =>
              m \in broken' \/ file'[m]["image"].here # Missing
    BY <1>1 DEF Exists
  <2>1. CASE request.op \in Subjects /\ i = request.image
    <3>1. request.op \in {"revision", "replace"}
      BY <1>0, <1>6, <2>1, StepOps DEF Subjects
    <3>2. i \in Images /\ (i \in broken \/ Exists(i, "image")) /\ ~Deleting
      BY <1>0, <2>1, <3>1 DEF EntriesOK, Deleting
    <3> QED BY <2>0, <3>2
  <2>2. CASE InRange /\ i = Entry /\ request.op \in {"load", "save", "delete"}
    <3>1. i \in Images /\ (i \in broken \/ Exists(i, "image")) /\ ~Deleting
      BY <1>0, <2>2 DEF EntriesOK, Deleting, InRange, Entry
    <3> QED BY <2>0, <3>1
  <2> QED BY <1>0, <1>6, <2>1, <2>2, StepSubject DEF Subjects
<1> QED BY <1>3, <1>4, <1>5, <1>6 DEF EntriesOK, Distinct, Exists, Deleting

\* What is under way on an image is on one that is.
LEMMA SubjectIsImage == \A r \in Requests : r.op \in Subjects => r.image \in Images
<1> SUFFICES ASSUME NEW r \in Requests, r.op \in Subjects PROVE r.image \in Images
  OBVIOUS
<1>1. CASE r \in [op : {"stage", "unlink"}, index : Nat, tab : Tabs, image : Images,
                  rows : Seq(SUBSET Images), rest : Rests, staged : SUBSET PartNames]
  BY <1>1
<1>2. CASE r \in [op : {"revision"}, tab : Tabs, index : Nat, image : Images, shown : Contents]
  <2> HIDE DEF Contents
  <2> QED BY <1>2
<1>3. CASE r \in [op : {"replace"}, tab : Tabs, index : Nat, image : Images, draft : Contents]
  <2> HIDE DEF Contents
  <2> QED BY <1>3
<1>4. r.op \notin {"none", "load", "delete", "save"}
  BY DEF Subjects
<1> HIDE DEF Contents, Rests, PartNames
<1> QED BY <1>1, <1>2, <1>3, <1>4 DEF Requests, Idle

\* At the start an image is one of a row or one of a capture to come.
LEMMA InitDeletion == ASSUME OwnImages PROVE Init => DeletionInv
<1> SUFFICES ASSUME Init PROVE DeletionInv
  OBVIOUS
<1>0. KeptInv /\ samples = Rows /\ captured = 0 /\ late = {} /\ request.op = "none"
      /\ server.entries = Discovered(Images)
  BY InitKept DEF Init, Idle
<1>1. PICK c \in Collected :
        file = [i \in Images |-> IF \E r \in DOMAIN Rows : i \in Rows[r]
                                 THEN [image |-> Here(Pixels), label |-> Here(c)]
                                 ELSE [image |-> Here(Missing), label |-> Here(Missing)]]
  BY DEF Init
<1>2. c # Missing /\ Pixels # Missing
  BY CollectedType DEF Collected, Pixels, Missing
<1>3. ASSUME NEW i \in Images, Refer(Rows, i) PROVE Whole(i) /\ Once(Rows, i)
  <2>1. PICK r \in DOMAIN Rows : i \in Rows[r]
    BY <1>3 DEF Refer
  <2>2. file[i] = [image |-> Here(Pixels), label |-> Here(c)]
    BY <1>1, <2>1
  <2>3. \A p \in PartNames : file[i][p] = Here(IF p = "image" THEN Pixels ELSE c)
    BY <2>2 DEF PartNames
  <2>4. \A s \in DOMAIN Rows : i \in Rows[s] <=> s = r
    BY <2>1, OwnRows
  <2>5. \A p \in PartNames : file[i][p].here # Missing /\ file[i][p].staged = Missing
    <3>1. \A d : d # Missing => Here(d).here # Missing /\ Here(d).staged = Missing
      BY DEF Here
    <3>2. \A p \in PartNames : \E d : d # Missing /\ file[i][p] = Here(d)
      BY <1>2, <2>3
    <3> QED BY <3>1, <3>2
  <2>6. Whole(i)
    BY <2>5 DEF Whole
  <2>7. Once(Rows, i)
    BY <2>1, <2>4 DEF Once
  <2> QED BY <2>6, <2>7
<1>4. ASSUME NEW i \in Images, ~Refer(Rows, i)
      PROVE  \A p \in PartNames : file[i][p] = [here |-> Missing, staged |-> Missing]
  <2>1. file[i] = [image |-> Here(Missing), label |-> Here(Missing)]
    BY <1>1, <1>4 DEF Refer
  <2> QED BY <2>1 DEF PartNames, Here
<1>5. FutureOK
  <2> SUFFICES ASSUME NEW i \in Images, Future(i)
               PROVE  /\ \A p \in PartNames : file[i][p] = [here |-> Missing, staged |-> Missing]
                      /\ ~Refer(samples, i)
                      /\ \A k \in DOMAIN server.entries : server.entries[k] # i
    BY <1>0 DEF FutureOK
  <2>1. ~Refer(Rows, i)
    BY OwnRows DEF Future, Refer
  <2>2. ~Exists(i, "image")
    BY <1>4, <2>1 DEF Exists, PartNames
  <2> QED BY <1>0, <1>4, <2>1, <2>2, DiscoveredDistinct
<1>6. DeletionOK
  <2>1. ASSUME NEW i \in Images PROVE Consistent(samples, i)
    <3>1. CASE Refer(Rows, i)
      BY <1>0, <1>3, <3>1 DEF Consistent
    <3>2. CASE ~Refer(Rows, i)
      BY <1>0, <1>4, <3>2 DEF Consistent, Gone
    <3> QED BY <3>1, <3>2
  <2> QED BY <1>0, <2>1 DEF DeletionOK
<1>7. EntriesOK
  BY <1>0, DiscoveredDistinct DEF EntriesOK, Deleting
<1> QED BY <1>0, <1>5, <1>6, <1>7 DEF DeletionInv

\* Every step keeps a deletion all or nothing.
LEMMA StepDeletion == ASSUME OwnImages PROVE DeletionInv /\ [Next]_vars => DeletionInv'
<1> SUFFICES ASSUME DeletionInv, [Next]_vars PROVE DeletionInv'
  OBVIOUS
<1>0. KeptInv /\ FutureOK /\ Distinct(server.entries)
  BY DEF DeletionInv, EntriesOK
<1>1. KeptInv'
  BY <1>0, StepKept
<1>2. FutureOK'
  BY <1>0, StepFuture
<1>3. EntriesOK'
  BY StepEntries
<1>4. DeletionOK'
  <2>1. \A i \in Images : i \notin broken' /\ ~(request'.op \in {"stage", "unlink"} /\ request'.image = i)
           => Consistent(samples, i)'
    BY StepOthers
  <2>2. request'.op = "stage" => \A i \in Images : i \notin broken' /\ request'.image # i
           => Consistent(request.rows, i)'
    BY StepPreparedRows
  <2>3. request'.op \in {"stage", "unlink"} => request'.image \in Images
    <3>1. \A r \in Requests : r.op \in Subjects => r.image \in Images
      BY SubjectIsImage
    <3> QED BY <1>1, <3>1 DEF KeptInv, EditorTypeOK, Subjects
  <2>4. ASSUME request'.op = "stage", NEW i \in Images, i = request'.image, i \notin broken'
        PROVE  /\ i \in late' \/ Once(samples', i)
               /\ request'.staged = PartNames \ Elements(request'.rest)
               /\ \A p \in Elements(request'.rest) : file'[i][p].here # Missing
                                                     /\ file'[i][p].staged = Missing
               /\ \A p \in request'.staged : file'[i][p].here = Missing
    BY <2>4, StepStaged
  <2>5. ASSUME request'.op = "unlink", NEW i \in Images, i = request'.image, i \notin broken'
        PROVE  (\A p \in PartNames : file'[i][p].here = Missing) /\ ~Refer(samples', i)
    BY <2>5, StepUnlinked DEF Gone
  <2> USE DEF Deleting
  <2>6. \A i \in Images \ broken' : ~(Deleting' /\ request'.image = i) => Consistent(samples, i)'
    BY <2>1
  <2>7. request'.op = "stage" => 
         \A i \in Images \ broken' : request'.image # i => Consistent(request.rows, i)'
    BY <2>2
  <2>8. request'.op = "stage" /\ request'.image \notin broken' =>
         /\ request'.image \in late' \/ Once(samples', request'.image)
         /\ request'.staged = PartNames \ Elements(request'.rest)
         /\ \A p \in Elements(request'.rest) : /\ file'[request'.image][p].here # Missing
                                               /\ file'[request'.image][p].staged = Missing
         /\ \A p \in request'.staged : file'[request'.image][p].here = Missing
    BY <2>3, <2>4
  <2>9. request'.op = "unlink" /\ request'.image \notin broken' =>
         (\A p \in PartNames : file'[request'.image][p].here = Missing)
         /\ ~Refer(samples', request'.image)
    BY <2>3, <2>5
  <2> HIDE DEF Deleting
  <2> QED BY <2>6, <2>7, <2>8, <2>9 DEF DeletionOK, Remaining, Gone, Once, Refer, Elements
<1> QED BY <1>1, <1>2, <1>3, <1>4 DEF DeletionInv

\* Images are whole or gone, the one being deleted apart.
THEOREM DeletionInvariant == ASSUME OwnImages PROVE Spec => []DeletionInv
<1>1. Init => DeletionInv
  BY InitDeletion
<1>2. DeletionInv /\ [Next]_vars => DeletionInv'
  BY StepDeletion
<1> QED BY <1>1, <1>2, PTL DEF Spec

\* "Delete an image/label and update samples.jsonl as one operation" (editor.py:304):
\* between requests an image is there with its label and its row, or none of them is.
THEOREM AllOrNothingHolds == ASSUME OwnImages PROVE Spec => []AllOrNothing
<1>1. ASSUME DeletionInv PROVE AllOrNothing
  <2> SUFFICES ASSUME request = Idle, NEW i \in Images \ broken
               PROVE  \/ /\ Exists(i, "image") /\ Exists(i, "label")
                         /\ file[i]["image"].staged = Missing /\ file[i]["label"].staged = Missing
                         /\ i \in late \/ Cardinality(Refers(samples, i)) = 1
                      \/ /\ ~Exists(i, "image") /\ ~Exists(i, "label")
                         /\ Refers(samples, i) = {}
    BY DEF AllOrNothing
  <2>1. Consistent(samples, i)
    BY <1>1 DEF DeletionInv, DeletionOK, Deleting, Idle
  <2>2. Once(samples, i) => Cardinality(Refers(samples, i)) = 1
    <3> SUFFICES ASSUME Once(samples, i) PROVE Cardinality(Refers(samples, i)) = 1
      OBVIOUS
    <3>1. PICK r \in DOMAIN samples : \A s \in DOMAIN samples : i \in samples[s] <=> s = r
      BY DEF Once
    <3>2. Refers(samples, i) = {r}
      BY <3>1 DEF Refers
    <3> QED BY <3>2, FS_Singleton
  <2>3. ~Refer(samples, i) => Refers(samples, i) = {}
    BY DEF Refer, Refers
  <2> QED BY <2>1, <2>2, <2>3 DEF Consistent, Whole, Gone, Exists, PartNames
<1>2. Spec => []DeletionInv
  BY DeletionInvariant
<1> QED BY <1>1, <1>2, PTL

\* What a save writes is what stands under the label's name after it.
LEMMA SavedLabel ==
    ASSUME EditorTypeOK, request.op = "replace", NEW i \in Images, i = request.image,
           file' = [file EXCEPT ![i]["label"].here = request.draft]
    PROVE  file'[i]["label"].here = request.draft
<1>1. request.draft \in Contents
  BY RequestOf DEF EditorTypeOK
<1>2. ASSUME NEW c \in Contents, file' = [file EXCEPT ![i]["label"].here = c]
      PROVE  file'[i]["label"].here = c
  <2>1. Put(i, "label", [file[i]["label"] EXCEPT !.here = c])
    BY <1>2, LabelWritten
  <2>2. file[i]["label"] \in File /\ "label" \in PartNames
    <3> HIDE DEF File
    <3> QED BY DEF EditorTypeOK, PartNames
  <2>3. file'[i]["label"] = [file[i]["label"] EXCEPT !.here = c]
    BY <2>1, <2>2 DEF Put
  <2> QED BY <2>2, <2>3 DEF File
<1> QED BY <1>1, <1>2

-----------------------------------------------------------------------------
(* Nothing unseen is overwritten                                              *)

\* A tab stays, loses its image, is edited, or is sent what was read.
LEMMA StepTab ==
    ASSUME KeptInv, [Next]_vars, NEW t \in Tabs
    PROVE  \/ tab'[t] = tab[t]
           \/ tab'[t] = NoImage /\ (request = Idle \/ DeleteReplies) /\ request' = Idle
           \/ /\ \E c \in Drafts : tab'[t] = [tab[t] EXCEPT !.draft = c]
              /\ tab[t].index # 0 /\ UNCHANGED <<file, request>>
           \/ /\ FileRevision /\ t = request.tab
              /\ tab'[t] = [index |-> request.index, revision |-> file[request.image]["label"].here,
                            shown |-> request.shown, draft |-> request.shown]
<1>0. DOMAIN tab = Tabs
  BY DEF KeptInv, EditorTypeOK
<1>1. ASSUME NEW u \in Tabs, Listed(u) PROVE tab'[t] = tab[t] \/ tab'[t] = NoImage
  BY <1>0, <1>1 DEF Listed
<1>2. ASSUME NEW u \in Tabs, Snapshot(u) \/ OpenPath(u)
      PROVE  (tab'[t] = tab[t] \/ tab'[t] = NoImage) /\ request = Idle /\ request' = request
  BY <1>1, <1>2 DEF Snapshot, OpenPath, Free
<1>3. ASSUME NEW u \in Tabs, Edit(u)
      PROVE  \/ tab'[t] = tab[t]
             \/ /\ \E c \in Drafts : tab'[t] = [tab[t] EXCEPT !.draft = c]
                /\ tab[t].index # 0 /\ UNCHANGED <<file, request>>
  <2>1. PICK c \in Drafts : tab' = [tab EXCEPT ![u].draft = c]
    BY <1>3 DEF Edit
  <2>2. CASE t = u
    <3>1. tab'[t] = [tab[t] EXCEPT !.draft = c]
      BY <1>0, <2>1, <2>2
    <3> QED BY <1>3, <2>2, <3>1 DEF Edit
  <2>3. CASE t # u
    BY <1>0, <2>1, <2>3
  <2> QED BY <2>2, <2>3
<1>4. CASE FileRevision
  <2> DEFINE u == request.tab
             e == [index |-> request.index, revision |-> file[request.image]["label"].here,
                   shown |-> request.shown, draft |-> request.shown]
  <2>1. tab' = [tab EXCEPT ![u] = e]
    BY <1>4 DEF FileRevision, Asker
  <2> HIDE DEF u, e
  <2>2. (t = u => tab'[t] = e) /\ (t # u => tab'[t] = tab[t])
    BY <1>0, <2>1
  <2> QED BY <1>4, <2>2 DEF u, e
<1>5. CASE DeleteReplies
  <2>1. request.tab \in Tabs
    <3>1. request \in Requests /\ request.op = "unlink"
      BY <1>5 DEF DeleteReplies, Doing, KeptInv, EditorTypeOK
    <3> QED BY <3>1, RequestOf
  <2>2. Listed(request.tab) /\ request' = Idle
    BY <1>5 DEF DeleteReplies, Asker
  <2>3. tab'[t] = tab[t] \/ tab'[t] = NoImage
    BY <1>1, <2>1, <2>2
  <2> QED BY <1>5, <2>2, <2>3
<1>6. CASE UNCHANGED tab
  BY <1>6
<1> QED BY <1>2, <1>3, <1>4, <1>5, <1>6 DEF Next, vars, Send, OutOfRange, LoadAnnotations,
      SaveChecks, SaveReplaces, DeleteReads, StageFile, SaveSamples, Unlink, Relabel, Crash,
      Restart, Capture

\* While a label is being loaded or saved, nobody but the save writes it unnoticed.
LEMMA LabelStays ==
    ASSUME OwnImages, DeletionInv, [Next]_vars, ~SaveReplaces,
           request.op \in {"revision", "replace"}, NEW i \in Images, i = request.image
    PROVE  /\ file'[i] = file[i] \/ (Relabel /\ request.tab \in raced')
           /\ ~Relabel => file'[i] = file[i]
<1>0. KeptInv /\ FutureOK
  BY DEF DeletionInv
<1>1. Capture => i \notin Captures[captured + 1]
  <2> SUFFICES ASSUME Capture, i \in Captures[captured + 1] PROVE FALSE
    OBVIOUS
  <2>1. Future(i)
    BY <1>0, FutureShrinks
  <2> QED BY <1>0, <2>1 DEF FutureOK
<1>2. ~StageFile /\ ~SaveSamples /\ ~Unlink
  BY DEF StageFile, SaveSamples, Unlink, Doing
<1>3. ~Relabel => file'[i] = file[i]
  BY <1>0, <1>1, <1>2, StepFiles
<1>4. ASSUME Relabel PROVE file'[i] = file[i] \/ request.tab \in raced'
  <2>1. PICK j \in Images, c \in Labels :
          /\ file' = [file EXCEPT ![j]["label"].here = c]
          /\ raced' = IF request.op \in {"revision", "replace"} /\ request.image = j
                      THEN raced \cup {Asker} ELSE raced
    BY <1>4 DEF Relabel
  <2>2. j = i => request.tab \in raced'
    BY <2>1 DEF Asker
  <2>3. file \in Files
    BY <1>0 DEF KeptInv, EditorTypeOK, Files
  <2>4. j # i => file'[i] = file[i]
    BY <2>1, <2>3 DEF Files
  <2> QED BY <2>2, <2>4
<1> QED BY <1>3, <1>4

\* A tab leaves the raced ones when it loses its image or is shown what its revision says.
LEMMA StepRaced ==
    ASSUME KeptInv, [Next]_vars, NEW t \in Tabs, t \in raced, t \notin raced'
    PROVE  \/ tab'[t] = NoImage /\ (request = Idle \/ DeleteReplies)
           \/ /\ FileRevision /\ t = request.tab
              /\ request.shown = Readable(file[request.image]["label"].here)
<1>0. DOMAIN tab = Tabs
  BY DEF KeptInv, EditorTypeOK
<1>1. ASSUME NEW u, Listed(u) PROVE tab'[t] = NoImage
  BY <1>0, <1>1 DEF Listed
<1>2. ASSUME NEW u \in Tabs, Snapshot(u) \/ OpenPath(u) PROVE tab'[t] = NoImage /\ request = Idle
  BY <1>1, <1>2 DEF Snapshot, OpenPath, Free
<1>3. ASSUME DeleteReplies PROVE tab'[t] = NoImage
  BY <1>1, <1>3 DEF DeleteReplies
<1>4. ASSUME FileRevision
      PROVE  t = request.tab /\ request.shown = Readable(file[request.image]["label"].here)
  BY <1>4 DEF FileRevision, Asker
<1>5. ~Relabel
  BY DEF Relabel
<1> QED BY <1>2, <1>3, <1>4, <1>5 DEF Next, vars, Edit, Send, OutOfRange, LoadAnnotations,
      SaveChecks, SaveReplaces, DeleteReads, StageFile, SaveSamples, Unlink, Crash, Restart, Capture

\* Reading a label leaves out what is no annotation, and that only.
LEMMA CleanReadable == \A c : Clean(Readable(c)) /\ (c # Missing /\ Clean(c) => Readable(c) = c)
BY DEF Clean, Readable

\* What a tab shows is what could be read of its revision.
LEMMA StepTabs ==
    ASSUME KeptInv, ShownOK, [Next]_vars, NEW t \in Tabs
    PROVE  /\ tab'[t].index # 0 => tab'[t].shown = Readable(tab'[t].revision) \/ t \in raced'
           /\ tab'[t].index # 0 => Clean(tab'[t].draft) /\ Clean(tab'[t].shown)
           /\ tab'[t].index = 0 => tab'[t].draft = tab'[t].shown
<1> DEFINE Tab == [index : Nat, revision : Contents, shown : Contents, draft : Contents]
           OK(e, r) == /\ e.index # 0 => e.shown = Readable(e.revision) \/ t \in r
                       /\ e.index # 0 => Clean(e.draft) /\ Clean(e.shown)
                       /\ e.index = 0 => e.draft = e.shown
<1>0. OK(tab[t], raced) /\ tab[t] \in Tab
  BY DEF ShownOK, KeptInv, EditorTypeOK
<1>1. \A r : OK(NoImage, r)
  BY DEF NoImage
<1>2. ASSUME NEW c \in Drafts, tab[t].index # 0, tab'[t] = [tab[t] EXCEPT !.draft = c]
      PROVE  OK(tab'[t], raced)
  <2>1. Clean(c)
    BY <1>2, CleanReadable DEF Drafts, Clean
  <2>2. /\ tab'[t].index = tab[t].index /\ tab'[t].revision = tab[t].revision
        /\ tab'[t].shown = tab[t].shown /\ tab'[t].draft = c
    BY <1>0, <1>2
  <2> QED BY <1>0, <1>2, <2>1, <2>2
<1>3. ASSUME FileRevision, t = request.tab PROVE OK(tab'[t], raced')
  <2> DEFINE e == [index |-> request.index, revision |-> file[request.image]["label"].here,
                   shown |-> request.shown, draft |-> request.shown]
  <2>1. /\ request.shown = Readable(file[request.image]["label"].here) \/ request.tab \in raced
        /\ request.index # 0 /\ Clean(request.shown)
    BY <1>3 DEF ShownOK, FileRevision, Doing
  <2>2. request.shown = Readable(file[request.image]["label"].here) \/ request.tab \in raced'
    BY <1>3, <2>1 DEF FileRevision
  <2>3. tab' = [tab EXCEPT ![t] = e]
    BY <1>3 DEF FileRevision, Asker
  <2>4. OK(e, raced')
    BY <1>3, <2>1, <2>2
  <2> HIDE DEF OK, e
  <2>5. tab'[t] = e
    BY <2>3 DEF KeptInv, EditorTypeOK
  <2> QED BY <2>4, <2>5
<1>4. tab'[t] = tab[t] => OK(tab'[t], raced)
  BY <1>0
<1>5. tab'[t] = NoImage => OK(tab'[t], raced')
  BY <1>1
<1>6. ~(FileRevision /\ t = request.tab) /\ OK(tab'[t], raced) => OK(tab'[t], raced')
  BY <1>5, StepRaced
<1> HIDE DEF OK
<1>7. \/ OK(tab'[t], raced) \/ tab'[t] = NoImage \/ (FileRevision /\ t = request.tab)
  BY <1>2, <1>4, StepTab
<1>8. OK(tab'[t], raced')
  BY <1>3, <1>5, <1>6, <1>7
<1> QED BY <1>8 DEF OK

\* A save has the revision its tab has, and replaces that.
LEMMA StepSaved ==
    ASSUME OwnImages, DeletionInv, ShownOK, [Next]_vars
    PROVE  /\ request'.op = "save" =>
                /\ tab'[request'.tab].index # 0 /\ request'.revision = tab'[request'.tab].revision
                /\ Clean(request'.draft)
           /\ request'.op = "replace" =>
                /\ tab'[request'.tab].index # 0
                /\ \/ file'[request'.image]["label"].here = tab'[request'.tab].revision
                   \/ request'.tab \in raced'
                /\ Clean(request'.draft) /\ request'.draft \cap Flat = {} /\ request'.index # 0
           /\ request'.op = "revision" =>
                /\ \/ request'.shown = Readable(file'[request'.image]["label"].here)
                   \/ request'.tab \in raced'
                /\ request'.index # 0 /\ Clean(request'.shown)
<1> USE RequestOf
<1>0. KeptInv /\ EditorTypeOK /\ request \in Requests /\ Idle.op = "none"
  BY DEF DeletionInv, KeptInv, EditorTypeOK, Idle
<1> DEFINE Held(t) == tab'[t].index = tab[t].index /\ tab'[t].revision = tab[t].revision
\* Nobody takes the image from a tab that waits for its save.
<1>1. ASSUME NEW t \in Tabs, request.op \in {"save", "replace"} PROVE Held(t)
  <2> DEFINE Tab == [index : Nat, revision : Contents, shown : Contents, draft : Contents]
  <2>1. tab[t] \in Tab
    BY <1>0 DEF EditorTypeOK
  <2>2. \A c : [tab[t] EXCEPT !.draft = c].index = tab[t].index
               /\ [tab[t] EXCEPT !.draft = c].revision = tab[t].revision
    BY <2>1
  <2>3. ~FileRevision /\ ~DeleteReplies /\ request # Idle
    BY <1>0, <1>1 DEF FileRevision, DeleteReplies, Doing
  <2>4. tab'[t] = tab[t] \/ \E c \in Drafts : tab'[t] = [tab[t] EXCEPT !.draft = c]
    BY <1>0, <2>3, StepTab
  <2> QED BY <2>2, <2>4
<1>2. request.op \in {"save", "replace", "delete", "load"} => request.tab \in Tabs
  BY <1>0
<1>3. request.op \in {"revision", "replace"} => request.image \in Images /\ request.tab \in Tabs
  BY <1>0
<1>4. CASE UNCHANGED request
  <2>1. request.op = "save" =>
                /\ tab'[request.tab].index # 0 /\ request.revision = tab'[request.tab].revision
                /\ Clean(request.draft)
    BY <1>1, <1>2 DEF ShownOK
  <2>2. ~SaveReplaces
    BY <1>0, <1>4 DEF SaveReplaces, Doing
  <2>3. request.op \in {"revision", "replace"} =>
            file'[request.image] = file[request.image] \/ request.tab \in raced'
    BY <1>3, <2>2, LabelStays
  <2>a. request.op \in {"revision", "replace"} /\ request.tab \in raced => request.tab \in raced'
    <3>1. request.op \in {"revision", "replace"} => request # Idle /\ ~DeleteReplies /\ ~FileRevision
      BY <1>0, <1>4 DEF DeleteReplies, FileRevision, Doing
    <3> QED BY <1>0, <1>3, <3>1, StepRaced DEF DeletionInv
  <2>4. request.op = "replace" =>
                /\ tab'[request.tab].index # 0
                /\ \/ file'[request.image]["label"].here = tab'[request.tab].revision
                   \/ request.tab \in raced'
                /\ Clean(request.draft) /\ request.draft \cap Flat = {} /\ request.index # 0
    BY <1>1, <1>2, <2>3, <2>a DEF ShownOK
  <2>5. request.op = "revision" =>
                /\ \/ request.shown = Readable(file'[request.image]["label"].here)
                   \/ request.tab \in raced'
                /\ request.index # 0 /\ Clean(request.shown)
    BY <2>3, <2>a DEF ShownOK
  <2> QED BY <1>4, <2>1, <2>4, <2>5
<1>5. ASSUME NEW t \in Tabs, Send(t), request'.op = "save"
      PROVE  /\ tab'[request'.tab].index # 0 /\ request'.revision = tab'[request'.tab].revision
             /\ Clean(request'.draft)
  <2>1. Dirty(t) /\ request' = [op |-> "save", tab |-> t, index |-> tab[t].index,
                                revision |-> tab[t].revision, draft |-> tab[t].draft]
        /\ UNCHANGED tab
    BY <1>5 DEF Send
  <2>2. tab[t].index # 0 /\ Clean(tab[t].draft)
    BY <2>1 DEF ShownOK, Dirty
  <2> QED BY <2>1, <2>2
<1>6. ASSUME NEW t \in Tabs, Send(t) PROVE request'.op \notin {"replace", "revision"}
  BY <1>6 DEF Send
<1>7. CASE LoadAnnotations
  <2>1. /\ request' = [op |-> "revision", tab |-> Asker, index |-> request.index,
                       image |-> Entry, shown |-> Readable(file[Entry]["label"].here)]
        /\ UNCHANGED file /\ request.index \in DOMAIN server.entries
    BY <1>7 DEF LoadAnnotations, InRange
  <2>2. request.index # 0
    BY <1>0, <2>1 DEF EditorTypeOK
  <2> QED BY <2>1, <2>2, CleanReadable
<1>8. CASE SaveChecks /\ request' # Idle
  <2>1. /\ ~Conflict /\ Valid(request.draft) /\ request.op = "save"
        /\ request' = [op |-> "replace", tab |-> Asker, index |-> request.index,
                         image |-> Entry, draft |-> request.draft]
        /\ UNCHANGED <<file, tab>> /\ request.index \in DOMAIN server.entries
    BY <1>8 DEF SaveChecks, InRange, Doing
  <2>2. request.index # 0
    BY <1>0, <2>1 DEF EditorTypeOK
  <2>3. /\ tab[request.tab].index # 0 /\ request.revision = tab[request.tab].revision
        /\ Clean(request.draft)
    BY <2>1 DEF ShownOK
  <2> QED BY <2>1, <2>2, <2>3 DEF Conflict, Valid, Asker
<1>9. CASE SaveReplaces /\ request' # Idle
  <2>1. /\ file' = [file EXCEPT ![request.image]["label"].here = request.draft]
        /\ request.op = "replace"
        /\ request' = [op |-> "revision", tab |-> Asker, index |-> request.index,
                       image |-> request.image, shown |-> request.draft]
    BY <1>9 DEF SaveReplaces, Doing
  <2>2. request.index # 0 /\ Clean(request.draft) /\ request.draft # Missing
    BY <1>0, <2>1, LinesAreThere DEF ShownOK, KeptInv, DraftsOK
  <2>3. file'[request.image]["label"].here = request.draft
    BY <1>0, <1>3, <2>1, SavedLabel
  <2>4. Readable(request.draft) = request.draft
    BY <2>2, CleanReadable
  <2> QED BY <2>1, <2>2, <2>3, <2>4
<1>10. CASE request'.op \notin {"save", "replace", "revision"}
  BY <1>10
<1>11. \/ UNCHANGED request \/ (\E t \in Tabs : Send(t)) \/ LoadAnnotations
       \/ (SaveChecks /\ request' # Idle) \/ (SaveReplaces /\ request' # Idle)
       \/ request'.op \notin {"save", "replace", "revision"}
  <2>1. request.op \in {"stage", "unlink"} => request'.op \notin {"save", "replace", "revision"}
         \/ UNCHANGED request
    <3>1. Deleting /\ ~Capture /\ ~Relabel /\ ~UNCHANGED request =>
            StageFile \/ SaveSamples \/ Unlink \/ DeleteReplies \/ Crash
      BY <1>0, StepDeleting
    <3>2. StageFile \/ SaveSamples => request'.op \in {"stage", "unlink", "none"}
      BY <1>0, StagingStep, SavingStep DEF RestoreStaged
    <3>3. Unlink => request'.op = "unlink"
      BY <1>0, UnlinkingStep
    <3>4. DeleteReplies \/ Crash => request'.op = "none"
      BY <1>0 DEF DeleteReplies, Crash
    <3>5. Capture \/ Relabel => UNCHANGED request
      BY DEF Capture, Relabel
    <3> QED BY <3>1, <3>2, <3>3, <3>4, <3>5 DEF Deleting
  <2>2. StageFile \/ SaveSamples \/ Unlink \/ DeleteReplies => request.op \in {"stage", "unlink"}
    BY DEF StageFile, SaveSamples, Unlink, DeleteReplies, Doing
  <2>3. DeleteReads \/ OutOfRange \/ FileRevision \/ Crash => request'.op \in {"none", "stage"}
    BY <1>0 DEF DeleteReads, OutOfRange, FileRevision, Crash
  <2>4. (SaveChecks \/ SaveReplaces) /\ request' = Idle => request'.op = "none"
    BY <1>0
  <2> QED BY <2>1, <2>2, <2>3, <2>4 DEF Next, vars, Snapshot, OpenPath, Edit, Capture, Relabel, Restart
<1> QED BY <1>4, <1>5, <1>6, <1>7, <1>8, <1>9, <1>10, <1>11

\* A save finds what it checked, and a tab shows what its revision says, unless another
\* process has relabelled the image in between.
THEOREM ShownInvariant ==
    ASSUME OwnImages
    PROVE  Spec => [](DeletionInv /\ ShownOK)
<1>1. ASSUME Init PROVE DeletionInv /\ ShownOK
  <2>1. request.op = "none" /\ \A t \in Tabs : tab[t] = NoImage
    BY <1>1 DEF Init, Idle
  <2> QED BY <1>1, <2>1, InitDeletion DEF ShownOK, NoImage
<1>2. ASSUME DeletionInv, ShownOK, [Next]_vars PROVE (DeletionInv /\ ShownOK)'
  <2>1. DeletionInv' /\ KeptInv
    BY <1>2, StepDeletion DEF DeletionInv
  <2>2. \A t \in Tabs :
          /\ tab'[t].index # 0 => tab'[t].shown = Readable(tab'[t].revision) \/ t \in raced'
          /\ tab'[t].index # 0 => Clean(tab'[t].draft) /\ Clean(tab'[t].shown)
          /\ tab'[t].index = 0 => tab'[t].draft = tab'[t].shown
    BY <1>2, <2>1, StepTabs
  <2>3. ShownOK'
    BY <1>2, <2>2, StepSaved DEF ShownOK, Readable, Clean
  <2> QED BY <2>1, <2>3
<1> QED BY <1>1, <1>2, PTL DEF Spec

\* README.md:76-78 of the tool: what a save replaces is what its tab was shown, and what
\* it could not be shown, unless another process relabels the image between the check
\* and the replacement or between the reads of a load; what it writes can be read back whole.
THEOREM NoUnseenOverwriteHolds ==
    ASSUME OwnImages
    PROVE  Spec => NoUnseenOverwrite
<1> DEFINE Seen == request.op = "replace" /\ request' # request /\ file' # file =>
                     /\ \/ Readable(file[request.image]["label"].here) = tab[request.tab].shown
                        \/ request.tab \in raced
                     /\ file'[request.image]["label"].here \cap (Malformed \cup Flat) = {}
<1>1. ASSUME DeletionInv, ShownOK, [Next]_vars PROVE Seen
  <2> SUFFICES ASSUME request.op = "replace", request' # request, file' # file
               PROVE  /\ \/ Readable(file[request.image]["label"].here) = tab[request.tab].shown
                         \/ request.tab \in raced
                      /\ file'[request.image]["label"].here \cap (Malformed \cup Flat) = {}
    OBVIOUS
  <2>1. EditorTypeOK /\ request \in Requests
    BY <1>1 DEF DeletionInv, KeptInv, EditorTypeOK
  <2>2. request.image \in Images /\ request.tab \in Tabs
    BY <2>1, RequestOf
  <2>3. SaveReplaces
    <3>1. ~StageFile /\ ~SaveSamples /\ ~Unlink
      BY DEF StageFile, SaveSamples, Unlink, Doing
    <3>2. ~Capture /\ ~Relabel
      BY DEF Capture, Relabel
    <3> QED BY <1>1, <3>1, <3>2 DEF Next, vars, Snapshot, OpenPath, Edit, Send, OutOfRange,
          LoadAnnotations, FileRevision, SaveChecks, DeleteReads, DeleteReplies, Crash, Restart
  <2>4. /\ tab[request.tab].index # 0
        /\ \/ file[request.image]["label"].here = tab[request.tab].revision
           \/ request.tab \in raced
        /\ Clean(request.draft) /\ request.draft \cap Flat = {}
    BY <1>1 DEF ShownOK
  <2>5. \/ Readable(file[request.image]["label"].here) = tab[request.tab].shown
        \/ request.tab \in raced
    BY <1>1, <2>2, <2>4 DEF ShownOK
  <2>6. file' = [file EXCEPT ![request.image]["label"].here = request.draft]
    BY <2>3 DEF SaveReplaces
  <2>7. file'[request.image]["label"].here = request.draft
    BY <2>1, <2>2, <2>6, SavedLabel
  <2> QED BY <2>4, <2>5, <2>7 DEF Clean
<1>2. Spec => [](DeletionInv /\ ShownOK)
  BY ShownInvariant
<1> HIDE DEF Seen
<1>3. DeletionInv /\ ShownOK /\ [Next]_vars => [Seen]_vars
  BY <1>1
<1>4. Spec => [][Seen]_vars
  BY <1>2, <1>3, PTL DEF Spec
<1> QED BY <1>4 DEF NoUnseenOverwrite, Seen

-----------------------------------------------------------------------------
(* TrialInputs: the depth frame of an image                                   *)

\* How far stamp s is from an image of stamp w.
Dist(s, w) == IF s >= w THEN s - w ELSE w - s

\* Frames come with growing stamps; a frame in use that was not late is the nearest of
\* those that were held, and one of these is not older than the image, so that any
\* later frame is farther away.
DepthInv ==
    /\ frames \in Seq(Nat) /\ wanted \in Nat
    /\ \A i, j \in DOMAIN frames : i < j => frames[i] < frames[j]
    /\ depth # Inputs!None =>
         /\ step \in {"label", "done"} /\ depth.stamp \in Nat
         /\ ~depth.late =>
              /\ \A i \in DOMAIN frames : \/ Dist(depth.stamp, wanted) <= Dist(frames[i], wanted)
                                          \/ frames[i] < depth.since
              /\ \E i \in DOMAIN frames : /\ wanted <= frames[i]
                                          /\ Dist(depth.stamp, wanted) <= Dist(frames[i], wanted)

\* Finitely many arguments have finitely many values.
LEMMA ValuesFinite ==
    ASSUME NEW S, IsFiniteSet(S), NEW T, NEW g \in [S -> T]
    PROVE  IsFiniteSet({g[x] : x \in S})
<1> DEFINE V == {g[x] : x \in S}
<1>1. g \in [S -> V] /\ \A v \in V : \E x \in S : g[x] = v
  OBVIOUS
<1> HIDE DEF V
<1>2. g \in Surjection(S, V)
  BY <1>1 DEF Surjection
<1> QED BY <1>2, FS_Surjection DEF V

\* How far a stamp is from the image's.
LEMMA AwayIs ==
    ASSUME wanted \in Nat, NEW s \in Nat
    PROVE  Inputs!Away(s) = Dist(s, wanted)
<1> DEFINE x == s - wanted
           y == wanted - s
<1>1. x \in Int /\ y \in Int /\ y = 0 - x
  OBVIOUS
<1> HIDE DEF x, y
<1>2. Inputs!Max({x, y}) = IF x >= y THEN x ELSE y
  <2>1. CASE x >= y
    <3>1. \A z \in {x, y} : (\A w \in {x, y} : z >= w) <=> z = x
      BY <1>1, <2>1
    <3> QED BY <2>1, <3>1 DEF Inputs!Max
  <2>2. CASE ~(x >= y)
    <3>1. \A z \in {x, y} : (\A w \in {x, y} : z >= w) <=> z = y
      BY <1>1, <2>2
    <3> QED BY <2>2, <3>1 DEF Inputs!Max
  <2> QED BY <2>1, <2>2
<1>3. Inputs!Away(s) = Inputs!Max({x, y})
  BY DEF Inputs!Away, x, y
<1> QED BY <1>2, <1>3 DEF x, y, Dist

\* The buffer holds the newest frames.
LEMMA BufferedAre ==
    ASSUME frames \in Seq(Nat)
    PROVE  \E k \in Nat \ {0} : Inputs!Buffered = {frames[i] : i \in k .. Len(frames)}
<1> DEFINE n == Len(frames)
           k == Inputs!Max({1, n - MaxFrames + 1})
<1>1. n \in Nat /\ n - MaxFrames + 1 \in Int
  BY MCLabelsAssumption DEF Inputs!DepthAssumption
<1>2. k \in Nat \ {0}
  <2> DEFINE m == n - MaxFrames + 1
  <2> HIDE DEF m, n
  <2>1. \E z \in {1, m} : \A w \in {1, m} : z >= w
    <3>1. CASE m >= 1
      BY <1>1, <3>1 DEF m
    <3>2. CASE ~(m >= 1)
      BY <1>1, <3>2 DEF m
    <3> QED BY <3>1, <3>2
  <2>2. Inputs!Max({1, m}) \in {1, m} /\ Inputs!Max({1, m}) >= 1
    BY <2>1 DEF Inputs!Max
  <2> QED BY <1>1, <2>2 DEF m
<1> DEFINE held == SubSeq(frames, k, n)
<1>3. /\ Len(held) = IF k <= n THEN n - k + 1 ELSE 0
      /\ \A i \in 1 .. n - k + 1 : held[i] = frames[k + i - 1]
      /\ DOMAIN held = 1 .. Len(held)
  <2> HIDE DEF k
  <2>1. \A i \in k .. n : frames[i] \in Nat
    BY <1>1, <1>2
  <2>2. held \in Seq(Nat)
    BY <1>1, <1>2, <2>1, SubSeqProperties
  <2> QED BY <1>1, <1>2, <2>1, <2>2, SubSeqProperties
<1>4. Inputs!Buffered = {held[i] : i \in DOMAIN held}
  BY DEF Inputs!Buffered, Inputs!Range
<1> HIDE DEF k, n, held
<1>5. {held[i] : i \in DOMAIN held} = {frames[i] : i \in k .. n}
  <2>1. \A i \in DOMAIN held : held[i] = frames[k + i - 1] /\ k + i - 1 \in k .. n
    BY <1>1, <1>2, <1>3
  <2>2. \A i \in k .. n : i - k + 1 \in DOMAIN held /\ held[i - k + 1] = frames[i]
    BY <1>1, <1>2, <1>3
  <2> QED BY <2>1, <2>2
<1> QED BY <1>2, <1>4, <1>5 DEF n

\* Of the frames that are near enough one is nearest, the older one of two.
LEMMA NearestIs ==
    ASSUME frames \in Seq(Nat), wanted \in Nat, Inputs!Candidates # {}
    PROVE  /\ Inputs!Nearest \in Inputs!Candidates
           /\ \A t \in Inputs!Candidates : Inputs!Away(Inputs!Nearest) <= Inputs!Away(t)
<1> DEFINE C == Inputs!Candidates
           key(s) == -(2 * Inputs!Away(s) + IF s <= wanted THEN 0 ELSE 1)
           K == {key(s) : s \in C}
<1>1. \A s \in C : s \in Nat /\ Inputs!Away(s) \in Nat
  <2>1. \A s \in C : s \in Nat
    BY BufferedAre DEF Inputs!Candidates
  <2>2. \A s \in C : Inputs!Away(s) = IF s >= wanted THEN s - wanted ELSE wanted - s
    BY <2>1, AwayIs DEF Dist
  <2> QED BY <2>1, <2>2
<1>2. IsFiniteSet(C)
  <2>1. PICK k \in Nat \ {0} : Inputs!Buffered = {frames[i] : i \in k .. Len(frames)}
    BY BufferedAre
  <2>2. IsFiniteSet(k .. Len(frames))
    BY FS_Interval
  <2> DEFINE g == [i \in k .. Len(frames) |-> frames[i]]
  <2>3. g \in [k .. Len(frames) -> Nat]
    OBVIOUS
  <2>4. IsFiniteSet({g[i] : i \in k .. Len(frames)})
    <3> HIDE DEF g
    <3> QED BY <2>2, <2>3, ValuesFinite
  <2> QED BY <2>1, <2>4, FS_Subset DEF Inputs!Candidates
<1>3. IsFiniteSet(K) /\ K # {} /\ \A x \in K : x \in Int
  <2>1. IsFiniteSet(K)
    <3> DEFINE g == [s \in C |-> key(s)]
    <3>1. g \in [C -> Int] /\ K = {g[s] : s \in C}
      BY <1>1
    <3> HIDE DEF C, g, K
    <3> QED BY <1>2, <3>1, ValuesFinite
  <2> QED BY <1>1, <2>1
<1>4. Max(K) \in K /\ \A y \in K : Max(K) >= y
  <2> HIDE DEF K
  <2> QED BY <1>3, MaxIsLargest
<1>5. PICK s \in C : \A t \in C : key(s) >= key(t)
  <2>1. PICK s \in C : Max(K) = key(s)
    BY <1>4
  <2> QED BY <1>4, <2>1
<1>6. \A t \in C : \/ Inputs!Away(s) < Inputs!Away(t)
                   \/ Inputs!Away(s) = Inputs!Away(t) /\ s <= t
  <2> SUFFICES ASSUME NEW t \in C
               PROVE  \/ Inputs!Away(s) < Inputs!Away(t)
                      \/ Inputs!Away(s) = Inputs!Away(t) /\ s <= t
    OBVIOUS
  <2>1. /\ s \in Nat /\ t \in Nat
        /\ Inputs!Away(s) = IF s >= wanted THEN s - wanted ELSE wanted - s
        /\ Inputs!Away(t) = IF t >= wanted THEN t - wanted ELSE wanted - t
    BY <1>1, AwayIs DEF Dist
  <2>2. key(s) >= key(t)
    BY <1>5
  <2> QED BY <2>1, <2>2
<1>7. \E x \in C : \A t \in C : \/ Inputs!Away(x) < Inputs!Away(t)
                                \/ Inputs!Away(x) = Inputs!Away(t) /\ x <= t
  BY <1>6
<1>8. Inputs!Nearest \in C /\ \A t \in C :
        \/ Inputs!Away(Inputs!Nearest) < Inputs!Away(t)
        \/ Inputs!Away(Inputs!Nearest) = Inputs!Away(t) /\ Inputs!Nearest <= t
  BY <1>7 DEF Inputs!Nearest
<1> QED BY <1>1, <1>8

\* The frame chosen, and what holds of it from then on.
LEMMA ChosenNearest ==
    ASSUME DepthInv, Inputs!Settled
    PROVE  /\ Inputs!Nearest \in Nat
           /\ \A i \in DOMAIN frames : \/ Inputs!Away(Inputs!Nearest) <= Inputs!Away(frames[i])
                                       \/ frames[i] < Inputs!Min(Inputs!Buffered)
           /\ \E i \in DOMAIN frames : /\ wanted <= frames[i]
                                       /\ Inputs!Away(Inputs!Nearest) <= Inputs!Away(frames[i])
<1> DEFINE C == Inputs!Candidates
           n == Len(frames)
           best == Inputs!Nearest
<1>1. frames \in Seq(Nat) /\ wanted \in Nat /\ n \in Nat /\ DOMAIN frames = 1 .. n
  BY DEF DepthInv
<1>2. PICK k \in Nat \ {0} : Inputs!Buffered = {frames[i] : i \in k .. n}
  BY <1>1, BufferedAre
<1>3. best \in C /\ \A t \in C : Inputs!Away(best) <= Inputs!Away(t)
  BY <1>1, NearestIs DEF Inputs!Settled
<1>4. best \in Nat /\ Inputs!Away(best) <= MaxSkew
  BY <1>1, <1>2, <1>3 DEF Inputs!Candidates
<1>5. \A i \in k .. n : Inputs!Away(best) <= Inputs!Away(frames[i])
  <2> SUFFICES ASSUME NEW i \in k .. n PROVE Inputs!Away(best) <= Inputs!Away(frames[i])
    OBVIOUS
  <2>1. frames[i] \in Inputs!Buffered /\ frames[i] \in Nat
    BY <1>1, <1>2
  <2>2. CASE frames[i] \in C
    BY <1>3, <2>2
  <2>3. CASE frames[i] \notin C
    <3>1. ~(Inputs!Away(frames[i]) <= MaxSkew)
      BY <2>1, <2>3 DEF Inputs!Candidates
    <3>2. Inputs!Away(frames[i]) \in Int /\ Inputs!Away(best) \in Int /\ MaxSkew \in Int
      <4>1. MaxSkew \in Int
        BY MCLabelsAssumption DEF Inputs!DepthAssumption
      <4>2. Inputs!Away(frames[i]) = Dist(frames[i], wanted) /\ Inputs!Away(best) = Dist(best, wanted)
        BY <1>1, <1>4, <2>1, AwayIs
      <4> QED BY <1>1, <1>4, <2>1, <4>1, <4>2 DEF Dist
    <3> QED BY <1>4, <3>1, <3>2
  <2> QED BY <2>2, <2>3
<1>6. k <= n
  BY <1>1, <1>2 DEF Inputs!Settled
<1>7. Inputs!Min(Inputs!Buffered) = frames[k]
  <2>1. \A i \in k .. n : frames[k] <= frames[i] /\ frames[i] \in Nat
    BY <1>1, <1>2 DEF DepthInv
  <2>2. frames[k] \in Inputs!Buffered /\ \A y \in Inputs!Buffered : frames[k] <= y /\ y \in Nat
    BY <1>1, <1>2, <1>6, <2>1
  <2>3. \A x \in Inputs!Buffered :
          (\A y \in Inputs!Buffered : x <= y) => x = frames[k]
    BY <2>2
  <2> QED BY <2>2, <2>3 DEF Inputs!Min
<1>8. \A i \in DOMAIN frames : Inputs!Away(best) <= Inputs!Away(frames[i]) \/ frames[i] < frames[k]
  BY <1>1, <1>2, <1>5, <1>6 DEF DepthInv
<1>9. PICK i \in k .. n : wanted <= frames[i]
  BY <1>1, <1>2 DEF Inputs!Settled
<1> HIDE DEF best
<1>10. \E j \in DOMAIN frames : wanted <= frames[j] /\ Inputs!Away(best) <= Inputs!Away(frames[j])
  BY <1>1, <1>2, <1>5, <1>9
<1> QED BY <1>4, <1>7, <1>8, <1>10 DEF best

\* A frame that arrives is newer than all others.
LEMMA FrameArrives ==
    ASSUME DepthInv, NEW s \in Nat, \A i \in DOMAIN frames : frames[i] < s
    PROVE  /\ Append(frames, s) \in Seq(Nat)
           /\ \A i, j \in DOMAIN Append(frames, s) : i < j => Append(frames, s)[i] < Append(frames, s)[j]
           /\ DOMAIN Append(frames, s) = DOMAIN frames \cup {Len(frames) + 1}
           /\ \A i \in DOMAIN frames : Append(frames, s)[i] = frames[i]
           /\ Append(frames, s)[Len(frames) + 1] = s
<1> DEFINE n == Len(frames)
           all == Append(frames, s)
<1>1. frames \in Seq(Nat) /\ n \in Nat /\ DOMAIN frames = 1 .. n
  BY DEF DepthInv
<1>2. /\ all \in Seq(Nat) /\ DOMAIN all = 1 .. n + 1
      /\ \A i \in DOMAIN frames : all[i] = frames[i]
      /\ all[n + 1] = s
  BY <1>1, AppendProperties
<1> HIDE DEF all, n
<1>3. DOMAIN all = DOMAIN frames \cup {n + 1}
  BY <1>1, <1>2
<1>4. \A i, j \in DOMAIN all : i < j => all[i] < all[j]
  <2> SUFFICES ASSUME NEW i \in DOMAIN all, NEW j \in DOMAIN all, i < j PROVE all[i] < all[j]
    OBVIOUS
  <2>1. i \in DOMAIN frames
    BY <1>1, <1>2
  <2>2. CASE j = n + 1
    BY <1>2, <2>1, <2>2
  <2>3. CASE j # n + 1
    <3>1. j \in DOMAIN frames
      BY <1>1, <1>2, <2>3
    <3>2. frames[i] < frames[j]
      BY <2>1, <3>1 DEF DepthInv
    <3> QED BY <1>2, <2>1, <3>1, <3>2
  <2> QED BY <2>2, <2>3
<1> QED BY <1>2, <1>3, <1>4 DEF all, n

\* Before a frame is found, none is in use.
LEMMA DepthInitially == Inputs!Init => DepthInv
BY DEF Inputs!Init, DepthInv, Inputs!None

\* Steps that are not about frames.
LEMMA SameFrames ==
    ASSUME DepthInv, UNCHANGED <<frames, wanted, depth>>,
           depth # Inputs!None => step' \in {"label", "done"}
    PROVE  DepthInv'
BY DEF DepthInv, Inputs!None

\* One step per action; only a new frame, a new image and the end of a wait matter.
LEMMA DepthStep == DepthInv /\ [Inputs!Next]_(Inputs!vars) => DepthInv'
<1> SUFFICES ASSUME DepthInv, [Inputs!Next]_(Inputs!vars) PROVE DepthInv'
  OBVIOUS
<1>1. depth # Inputs!None => step \in {"label", "done"}
  BY DEF DepthInv
<1>2. CASE UNCHANGED Inputs!vars
  <2>1. UNCHANGED <<frames, wanted, depth, step>>
    BY <1>2 DEF Inputs!vars
  <2> QED BY <1>1, <2>1, SameFrames
<1>3. CASE \/ Inputs!PrepareArgs \/ Inputs!PrepareTrial \/ Inputs!SpawnBoard \/ Inputs!Construct
          \/ Inputs!SampleViews \/ Inputs!SampleZero \/ Inputs!SampleTier \/ Inputs!WriteManifest
          \/ Inputs!Snapshot
  <2>1. UNCHANGED <<frames, wanted, depth>> /\ step \notin {"label", "done"}
    BY <1>3 DEF Inputs!PrepareArgs, Inputs!PrepareTrial, Inputs!SpawnBoard, Inputs!Construct,
                Inputs!SampleViews, Inputs!SampleZero, Inputs!SampleTier, Inputs!WriteManifest,
                Inputs!Snapshot
  <2> QED BY <1>1, <2>1, SameFrames
<1>4. CASE Inputs!DepthImage
  <2>1. PICK s \in 1 .. LastStamp : /\ \A i \in DOMAIN frames : frames[i] < s
                                  /\ frames' = Append(frames, s)
    BY <1>4 DEF Inputs!DepthImage
  <2>2. s \in Nat /\ UNCHANGED <<wanted, depth, step>>
    BY <1>4, <2>1, MCLabelsAssumption DEF Inputs!DepthImage, Inputs!DepthAssumption
  <2>3. /\ frames' \in Seq(Nat)
        /\ \A i, j \in DOMAIN frames' : i < j => frames'[i] < frames'[j]
        /\ DOMAIN frames' = DOMAIN frames \cup {Len(frames) + 1}
        /\ \A i \in DOMAIN frames : frames'[i] = frames[i]
        /\ frames'[Len(frames) + 1] = s
    BY <2>1, <2>2, FrameArrives
  <2>4. ASSUME depth # Inputs!None, ~depth.late
        PROVE  /\ \A i \in DOMAIN frames' : \/ Dist(depth.stamp, wanted) <= Dist(frames'[i], wanted)
                                             \/ frames'[i] < depth.since
               /\ \E i \in DOMAIN frames' : /\ wanted <= frames'[i]
                                             /\ Dist(depth.stamp, wanted) <= Dist(frames'[i], wanted)
    <3>1. PICK i \in DOMAIN frames : /\ wanted <= frames[i]
                                    /\ Dist(depth.stamp, wanted) <= Dist(frames[i], wanted)
      BY <2>4 DEF DepthInv
    <3>2. frames[i] < s /\ frames[i] \in Nat /\ wanted \in Nat /\ depth.stamp \in Nat
      BY <2>1, <2>4, <3>1 DEF DepthInv
    <3>3. Dist(depth.stamp, wanted) <= Dist(s, wanted)
      BY <2>2, <3>1, <3>2 DEF Dist
    <3>4. \A j \in DOMAIN frames : \/ Dist(depth.stamp, wanted) <= Dist(frames[j], wanted)
                                  \/ frames[j] < depth.since
      BY <2>4 DEF DepthInv
    <3> QED BY <2>3, <3>1, <3>3, <3>4
  <2>5. wanted \in Nat /\ (depth # Inputs!None => depth.stamp \in Nat)
    BY DEF DepthInv
  <2> QED BY <1>1, <2>2, <2>3, <2>4, <2>5 DEF DepthInv, Inputs!None
<1>5. CASE Inputs!Observe
  <2>1. PICK s \in 1 .. LastStamp : wanted' = s
    BY <1>5 DEF Inputs!Observe
  <2>2. wanted' \in Nat /\ UNCHANGED <<frames, depth>> /\ step = "observe"
    BY <1>5, <2>1, MCLabelsAssumption DEF Inputs!Observe, Inputs!DepthAssumption
  <2>3. depth' = Inputs!None
    BY <1>1, <2>2
  <2> QED BY <2>2, <2>3 DEF DepthInv, Inputs!None
<1>6. CASE Inputs!FindDepth
  <2>1. /\ Inputs!Settled /\ UNCHANGED <<frames, wanted>> /\ step' = "label"
        /\ depth' = [stamp |-> Inputs!Nearest, late |-> FALSE, since |-> Inputs!Min(Inputs!Buffered)]
    BY <1>6 DEF Inputs!FindDepth
  <2>2. /\ Inputs!Nearest \in Nat
        /\ \A i \in DOMAIN frames : \/ Inputs!Away(Inputs!Nearest) <= Inputs!Away(frames[i])
                                    \/ frames[i] < Inputs!Min(Inputs!Buffered)
        /\ \E i \in DOMAIN frames : /\ wanted <= frames[i]
                                    /\ Inputs!Away(Inputs!Nearest) <= Inputs!Away(frames[i])
    BY <2>1, ChosenNearest
  <2>3. /\ Inputs!Away(Inputs!Nearest) = Dist(Inputs!Nearest, wanted)
        /\ \A i \in DOMAIN frames : Inputs!Away(frames[i]) = Dist(frames[i], wanted)
    <3>1. wanted \in Nat /\ \A i \in DOMAIN frames : frames[i] \in Nat
      BY DEF DepthInv
    <3> QED BY <2>2, <3>1, AwayIs
  <2>4. /\ depth'.stamp = Inputs!Nearest /\ depth'.since = Inputs!Min(Inputs!Buffered)
        /\ frames' = frames /\ wanted' = wanted /\ step' = "label"
    BY <2>1
  <2> HIDE DEF Dist
  <2> QED BY <2>2, <2>3, <2>4 DEF DepthInv
<1>7. CASE Inputs!DepthTimeout
  <2>1. UNCHANGED <<frames, wanted>> /\ step = "wait"
    BY <1>7 DEF Inputs!DepthTimeout
  <2>2. CASE Inputs!Candidates = {}
    <3>1. depth' = Inputs!None
      BY <1>7, <2>2 DEF Inputs!DepthTimeout
    <3> QED BY <2>1, <3>1 DEF DepthInv, Inputs!None
  <2>3. CASE Inputs!Candidates # {}
    <3>1. /\ depth' = [stamp |-> Inputs!Nearest, late |-> TRUE, since |-> Inputs!Min(Inputs!Buffered)]
          /\ step' = "label"
      BY <1>7, <2>3 DEF Inputs!DepthTimeout
    <3>2. Inputs!Nearest \in Nat
      <4>1. frames \in Seq(Nat) /\ wanted \in Nat
        BY DEF DepthInv
      <4>2. Inputs!Nearest \in Inputs!Buffered
        BY <2>3, <4>1, NearestIs DEF Inputs!Candidates
      <4> QED BY <4>1, <4>2, BufferedAre
    <3>3. depth'.late /\ depth'.stamp \in Nat
      BY <3>1, <3>2
    <3> QED BY <2>1, <3>1, <3>3 DEF DepthInv
  <2> QED BY <2>2, <2>3
<1>8. CASE Inputs!SaveSample
  <2>1. UNCHANGED <<frames, wanted, depth>> /\ step' = "done"
    BY <1>8 DEF Inputs!SaveSample
  <2> QED BY <2>1, SameFrames
<1>9. CASE Inputs!AutoVisibility
  <2>1. frames' = <<>> /\ wanted' = 0 /\ depth' = Inputs!None
    BY <1>9 DEF Inputs!AutoVisibility
  <2> QED BY <2>1 DEF DepthInv, Inputs!None
<1> QED BY <1>2, <1>3, <1>4, <1>5, <1>6, <1>7, <1>8, <1>9 DEF Inputs!Next

\* PortOffsetCollect.py:350-373: the depth frame in use is the nearest of all that the
\* camera ever delivers, unless the frame left the buffer or the wait ran out.
THEOREM NearestDepthHolds == Inputs!Spec => []NearestDepth
<1>1. DepthInv => NearestDepth
  <2> SUFFICES ASSUME DepthInv, depth # Inputs!None, ~depth.late, NEW i \in DOMAIN frames
               PROVE  Inputs!Away(depth.stamp) <= Inputs!Away(frames[i]) \/ frames[i] < depth.since
    BY DEF NearestDepth, Inputs!NearestDepth
  <2>1. wanted \in Nat /\ depth.stamp \in Nat /\ frames[i] \in Nat
    BY DEF DepthInv
  <2>2. /\ Inputs!Away(depth.stamp) = Dist(depth.stamp, wanted)
        /\ Inputs!Away(frames[i]) = Dist(frames[i], wanted)
    BY <2>1, AwayIs
  <2> QED BY <2>2 DEF DepthInv
<1> QED BY <1>1, DepthInitially, DepthStep, PTL DEF Inputs!Spec

-----------------------------------------------------------------------------
(* Labels match the scene                                                     *)

Kind == task.task.target_module[1]
Rail == task.task.target_module[2]
Active == task.metadata.active_rails
RailsOf(kind) == IF kind = "nic" THEN SfpRails ELSE ScRails
PortsOf(kind) == IF kind = "nic" THEN PortCount ELSE 1
Asked == IF Kind = "nic" THEN task.metadata.nic_translation ELSE task.metadata.sc_translation

\* A card mask says the same as the set of its rails, and the target is one of them.
TaskOK ==
    /\ Kind \in {"nic", "sc"}
    /\ task.task.target_module = <<Kind, Rail>>
    /\ task.task.connector = IF Kind = "nic" THEN "sfp" ELSE "sc"
    /\ task.task.port \in 0 .. PortsOf(Kind) - 1
    /\ Rail \in Active /\ \A r \in Active : r \in 0 .. RailsOf(Kind) - 1
    /\ task.task.cards = Inputs!Bits(Active, RailsOf(Kind))
    /\ task.metadata.lighting = task.world

\* The board that is asked for, and the one that stands, has the cards of the mask.
BoardOK ==
    /\ Asked \in -RailEnd .. RailEnd
    /\ \A r \in 0 .. RailsOf(Kind) - 1 :
         /\ <<Kind, r>> \in DOMAIN task.board
         /\ task.board[<<Kind, r>>].present <=> r \in Active
    /\ task.board[<<Kind, Rail>>].at = Asked
FixturesOK ==
    /\ \A x \in DOMAIN fixtures : x = <<x[1], x[2]>>
    /\ \A x \in DOMAIN fixtures : x[1] = Kind => (fixtures[x].present <=> x[2] \in Active)
    /\ \A r \in Active : <<Kind, r>> \in DOMAIN fixtures
    /\ fixtures[<<Kind, Rail>>].at = Asked

\* What the data set declares is what the policy does.
ManifestOK ==
    /\ manifest.yolo.names = IF policy.annotate THEN Inputs!ClassNames ELSE {}
    /\ manifest.data.preserve <=> Inputs!PreserveOccluded
PortsOK == ports = IF policy.annotate THEN Inputs!annotation_port_frames(task.task) ELSE {}
LabelsOK ==
    /\ labels.file.cards = Inputs!card_mask(task.task)
    /\ \A row \in labels.rows : /\ \E p \in ports : row.class = p.class
                                /\ ~Inputs!PreserveOccluded => row.view = "seen"

Looked == {"observe", "wait", "label", "done"}
Built == Looked \cup {"policy", "sample", "manifest", "task", "refused"}
SceneInv ==
    /\ step # "failed" /\ args \in ArgSets
    /\ step \in Built \cup {"spawn"} => TaskOK
    /\ step = "spawn" => BoardOK
    /\ step \in Built => FixturesOK
    /\ step \in Looked \cup {"task", "refused"} => ManifestOK
    /\ step \in Looked => PortsOK
    /\ step = "done" => LabelsOK

\* What two records or boards joined have: the second one's values, and the first one's elsewhere.
LEMMA JoinedIs ==
    ASSUME NEW f, NEW g
    PROVE  /\ DOMAIN Inputs!Joined(f, g) = DOMAIN f \cup DOMAIN g
           /\ \A x \in DOMAIN f \cup DOMAIN g :
                Inputs!Joined(f, g)[x] = IF x \in DOMAIN g THEN g[x] ELSE f[x]
BY DEF Inputs!Joined

\* A mask of rails written as bits, the highest rail first, and read back from the right.
LEMMA BitsAre ==
    ASSUME NEW mask, NEW n \in Nat, \A r \in mask : r \in 0 .. n - 1
    PROVE  /\ Inputs!Bits(mask, n) \in Seq(BOOLEAN) /\ Len(Inputs!Bits(mask, n)) = n
           /\ \A i \in 1 .. n : Inputs!Bits(mask, n)[i] <=> n - i \in mask
           /\ Inputs!Decoded(Inputs!Bits(mask, n)) = mask
<1> DEFINE b == Inputs!Bits(mask, n)
<1>1. b \in [1 .. n -> BOOLEAN] /\ \A i \in 1 .. n : b[i] <=> n - i \in mask
  <2>1. b = [i \in 1 .. n |-> (n - i) \in mask]
    BY DEF Inputs!Bits
  <2>2. \A i \in 1 .. n : b[i] <=> n - i \in mask
    <3> HIDE DEF b
    <3> TAKE i \in 1 .. n
    <3>1. b[i] = ((n - i) \in mask)
      BY <2>1, Zenon
    <3> QED BY <3>1
  <2>3. \A i \in 1 .. n : b[i] = TRUE \/ b[i] = FALSE
    <3> HIDE DEF b
    <3> TAKE i \in 1 .. n
    <3>1. b[i] = ((n - i) \in mask)
      BY <2>1, Zenon
    <3>2. CASE (n - i) \in mask
      BY <3>1, <3>2, Zenon
    <3>3. CASE (n - i) \notin mask
      BY <3>1, <3>3
    <3> QED BY <3>2, <3>3
  <2>4. b \in [1 .. n -> BOOLEAN]
    <3> HIDE DEF b
    <3>1. b = [i \in 1 .. n |-> b[i]]
      BY <2>1, Zenon
    <3>2. \A i \in 1 .. n : b[i] \in BOOLEAN
      BY <2>3, Zenon
    <3> QED BY <3>1, <3>2, Zenon
  <2> QED BY <2>2, <2>4
<1> HIDE DEF b
<1>2. b \in Seq(BOOLEAN) /\ Len(b) = n
  BY <1>1
<1>3. Inputs!Decoded(b) = mask
  <2>1. \A r \in 0 .. n - 1 : n - r \in 1 .. n /\ (b[n - r] <=> r \in mask)
    <3> TAKE r \in 0 .. n - 1
    <3>1. n - r \in 1 .. n /\ n - (n - r) = r
      OBVIOUS
    <3> QED BY <1>1, <3>1
  <2>2. Inputs!Decoded(b) = {r \in 0 .. n - 1 : b[n - r]}
    BY <1>2 DEF Inputs!Decoded
  <2>3. \A r : r \in {q \in 0 .. n - 1 : b[n - q]} <=> r \in mask
    BY <2>1, Zenon
  <2> QED BY <2>2, <2>3
<1> QED BY <1>1, <1>2, <1>3 DEF b

\* The lighting is put into the metadata beside what the scenario says of the board.
LEMMA MetadataIs ==
    ASSUME NEW type, NEW mask, NEW rail, NEW port, NEW nicAt, NEW scAt, NEW lit,
           NEW m, m = Inputs!Joined(Inputs!Metadata(type, mask, rail, port, nicAt, scAt), [lighting |-> lit])
    PROVE  m.active_rails = mask /\ m.nic_translation = nicAt /\ m.sc_translation = scAt /\ m.lighting = lit
<1> DEFINE f == Inputs!Metadata(type, mask, rail, port, nicAt, scAt)
           g == [lighting |-> lit]
<1>1. f.active_rails = mask /\ f.nic_translation = nicAt /\ f.sc_translation = scAt
      /\ {"active_rails", "nic_translation", "sc_translation"} \subseteq DOMAIN f
  BY DEF Inputs!Metadata
<1>2. DOMAIN g = {"lighting"} /\ g.lighting = lit
  OBVIOUS
<1> HIDE DEF f, g
<1>3. m = Inputs!Joined(f, g)
  BY DEF f, g
<1>4. \A x \in DOMAIN f \cup DOMAIN g : m[x] = IF x \in DOMAIN g THEN g[x] ELSE f[x]
  BY <1>3 DEF Inputs!Joined
<1>5. \A x \in DOMAIN f : x # "lighting" => m[x] = f[x]
  BY <1>2, <1>4
<1>6. m["active_rails"] = f["active_rails"]
  BY <1>1, <1>5
<1>7. m["nic_translation"] = f["nic_translation"] /\ m["sc_translation"] = f["sc_translation"]
  BY <1>1, <1>5
<1>8. m["lighting"] = g["lighting"]
  BY <1>2, <1>4
<1> QED BY <1>1, <1>2, <1>6, <1>7, <1>8

\* What is assumed of the constants of the board.
LEMMA BoardConstants ==
    /\ SfpRails \in Nat /\ ScRails \in Nat /\ ScSlots \in Nat /\ RailEnd \in Nat
    /\ PortCount \in Nat /\ PortCount > 0 /\ ScRails <= ScSlots
    /\ \A v \in Translations : v \in -RailEnd .. RailEnd
    /\ \A a \in ArgSets : a.port_type \in {"sfp", "sc"}
BY MCLabelsAssumption DEF Inputs!BoardAssumption

BoardOf(p, q, type) ==
    Inputs!Joined(Inputs!Joined(Inputs!Rails("nic", SfpRails, p), Inputs!Rails("sc", ScRails, q)),
                  Inputs!mount_rails(type))

\* The rails of a kind have the cards that poses has, where it has them.
Carries(board, kind, count, poses) ==
    \A r \in 0 .. count - 1 :
      /\ <<kind, r>> \in DOMAIN board
      /\ board[<<kind, r>>] = IF r \in DOMAIN poses THEN Inputs!Present(poses[r]) ELSE Inputs!Absent

\* A board of NIC cards where p puts them, of SC mounts where q does, and of mounts.
LEMMA BoardHas ==
    ASSUME NEW p, NEW q, NEW type
    PROVE  /\ Carries(BoardOf(p, q, type), "nic", SfpRails, p)
           /\ Carries(BoardOf(p, q, type), "sc", ScRails, q)
<1> DEFINE f == Inputs!Rails("nic", SfpRails, p)
           g == Inputs!Rails("sc", ScRails, q)
           h == Inputs!mount_rails(type)
           board == BoardOf(p, q, type)
<1>1. /\ DOMAIN f = {"nic"} \X (0 .. SfpRails - 1)
      /\ \A r \in 0 .. SfpRails - 1 :
           f[<<"nic", r>>] = IF r \in DOMAIN p THEN Inputs!Present(p[r]) ELSE Inputs!Absent
  BY DEF Inputs!Rails
<1>2. /\ DOMAIN g = {"sc"} \X (0 .. ScRails - 1)
      /\ \A r \in 0 .. ScRails - 1 :
           g[<<"sc", r>>] = IF r \in DOMAIN q THEN Inputs!Present(q[r]) ELSE Inputs!Absent
  BY DEF Inputs!Rails
<1>3. DOMAIN h = {"lc_mount", "sfp_mount", "sc_mount"} \X {0, 1}
  BY DEF Inputs!mount_rails, Inputs!Mounts
<1>4. board = Inputs!Joined(Inputs!Joined(f, g), h)
  BY DEF BoardOf
<1> HIDE DEF f, g, h, board
<1>5. /\ DOMAIN board = DOMAIN f \cup DOMAIN g \cup DOMAIN h
      /\ \A x \in DOMAIN f \cup DOMAIN g : x \notin DOMAIN h =>
           board[x] = IF x \in DOMAIN g THEN g[x] ELSE f[x]
  BY <1>4 DEF Inputs!Joined
<1>6. \A r : <<"nic", r>> \notin DOMAIN g /\ <<"nic", r>> \notin DOMAIN h /\ <<"sc", r>> \notin DOMAIN h
  BY <1>2, <1>3
<1>7. \A r \in 0 .. SfpRails - 1 : <<"nic", r>> \in DOMAIN f
  BY <1>1
<1>8. \A r \in 0 .. ScRails - 1 : <<"sc", r>> \in DOMAIN g
  BY <1>2
<1> QED BY <1>1, <1>2, <1>5, <1>6, <1>7, <1>8 DEF board, Carries

\* An entity that is present says where it is.
LEMMA PresentIs ==
    /\ \A v : Inputs!Present(v).present = TRUE /\ Inputs!Present(v).at = v
    /\ Inputs!Absent.present = FALSE
BY DEF Inputs!Present, Inputs!Absent

\* An SFP trial: its task, its metadata and its board have the NIC cards of one mask.
LEMMA SfpDrawn ==
    ASSUME args \in ArgSets, args.port_type = "sfp", NEW mask, \A r \in mask : r \in 0 .. SfpRails - 1,
           NEW rail \in mask, NEW port \in 0 .. PortCount - 1, NEW poses \in [mask -> Translations],
           NEW background \in Translations, NEW lit, NEW t,
           t = Inputs!make_sfp_trial(mask, rail, port, poses, background),
           task' = [task |-> t.task, board |-> t.board, world |-> lit,
                    metadata |-> Inputs!Joined(t.metadata, [lighting |-> lit])]
    PROVE  TaskOK' /\ BoardOK'
<1>1. /\ t.task = Inputs!Task("sfp", mask, rail, port)
      /\ t.metadata = Inputs!Metadata("sfp", mask, rail, port, poses[rail], background)
      /\ t.board = Inputs!Joined(Inputs!Joined(Inputs!Rails("nic", SfpRails, poses),
                                               Inputs!Rails("sc", ScRails, [r \in {0} |-> background])),
                                 Inputs!mount_rails("sfp"))
  BY DEF Inputs!make_sfp_trial
<1>2. /\ task'.task = t.task /\ task'.board = t.board /\ task'.world = lit
      /\ task'.metadata = Inputs!Joined(t.metadata, [lighting |-> lit])
  OBVIOUS
<1>3. /\ task'.metadata.active_rails = mask /\ task'.metadata.nic_translation = poses[rail]
      /\ task'.metadata.lighting = lit
  BY <1>1, <1>2, MetadataIs
<1>4. /\ task'.task.connector = "sfp" /\ task'.task.target_module = <<"nic", rail>>
      /\ task'.task.port = port /\ task'.task.cards = Inputs!Bits(mask, SfpRails)
  BY <1>1, <1>2 DEF Inputs!Task, Inputs!RailCount
<1>5. \A r \in 0 .. SfpRails - 1 :
        /\ <<"nic", r>> \in DOMAIN task'.board
        /\ task'.board[<<"nic", r>>] = IF r \in mask THEN Inputs!Present(poses[r]) ELSE Inputs!Absent
  <2>1. DOMAIN poses = mask
    OBVIOUS
  <2> DEFINE q == [r \in {0} |-> background]
  <2>2. task'.board = BoardOf(poses, q, "sfp")
    BY <1>1, <1>2 DEF BoardOf
  <2> HIDE DEF q
  <2>3. Carries(BoardOf(poses, q, "sfp"), "nic", SfpRails, poses)
    BY BoardHas
  <2> QED BY <2>1, <2>2, <2>3 DEF Carries
<1>6. poses[rail] \in -RailEnd .. RailEnd
  BY BoardConstants
<1>7. TaskOK'
  BY <1>2, <1>3, <1>4 DEF TaskOK, Kind, Rail, Active, RailsOf, PortsOf
<1>8. Kind' = "nic" /\ Rail' = rail /\ Active' = mask /\ Asked' = poses[rail]
  BY <1>3, <1>4 DEF Kind, Rail, Active, Asked
<1>9. BoardOK'
  <2>1. \A r \in 0 .. SfpRails - 1 :
          /\ <<"nic", r>> \in DOMAIN task'.board
          /\ task'.board[<<"nic", r>>].present <=> r \in mask
    BY <1>5, PresentIs
  <2>2. task'.board[<<"nic", rail>>].at = poses[rail]
    BY <1>5, PresentIs
  <2> QED BY <1>6, <1>8, <2>1, <2>2 DEF BoardOK, RailsOf
<1> QED BY <1>7, <1>9

\* An SC trial: the same of its SC mounts.
LEMMA ScDrawn ==
    ASSUME args \in ArgSets, args.port_type = "sc", NEW mask, \A r \in mask : r \in 0 .. ScRails - 1,
           NEW rail \in mask, NEW poses \in [mask -> Translations], NEW lit, NEW t,
           t = Inputs!make_sc_trial(mask, rail, poses),
           task' = [task |-> t.task, board |-> t.board, world |-> lit,
                    metadata |-> Inputs!Joined(t.metadata, [lighting |-> lit])]
    PROVE  TaskOK' /\ BoardOK'
<1>1. /\ t.task = Inputs!Task("sc", mask, rail, 0)
      /\ t.metadata = Inputs!Metadata("sc", mask, rail, -1, 0, poses[rail])
      /\ t.board = Inputs!Joined(Inputs!Joined(Inputs!Rails("nic", SfpRails, [r \in {} |-> 0]),
                                               Inputs!Rails("sc", ScRails, poses)),
                                 Inputs!mount_rails("sc"))
  BY DEF Inputs!make_sc_trial
<1>2. /\ task'.task = t.task /\ task'.board = t.board /\ task'.world = lit
      /\ task'.metadata = Inputs!Joined(t.metadata, [lighting |-> lit])
  OBVIOUS
<1>3. /\ task'.metadata.active_rails = mask /\ task'.metadata.sc_translation = poses[rail]
      /\ task'.metadata.lighting = lit
  BY <1>1, <1>2, MetadataIs
<1>4. /\ task'.task.connector = "sc" /\ task'.task.target_module = <<"sc", rail>>
      /\ task'.task.port = 0 /\ task'.task.cards = Inputs!Bits(mask, ScRails)
  BY <1>1, <1>2 DEF Inputs!Task, Inputs!RailCount
<1>5. \A r \in 0 .. ScRails - 1 :
        /\ <<"sc", r>> \in DOMAIN task'.board
        /\ task'.board[<<"sc", r>>] = IF r \in mask THEN Inputs!Present(poses[r]) ELSE Inputs!Absent
  <2>1. DOMAIN poses = mask
    OBVIOUS
  <2> DEFINE q == [r \in {} |-> 0]
  <2>2. task'.board = BoardOf(q, poses, "sc")
    BY <1>1, <1>2 DEF BoardOf
  <2> HIDE DEF q
  <2>3. Carries(BoardOf(q, poses, "sc"), "sc", ScRails, poses)
    BY BoardHas
  <2> QED BY <2>1, <2>2, <2>3 DEF Carries
<1>6. poses[rail] \in -RailEnd .. RailEnd
  BY BoardConstants
<1>7. TaskOK'
  BY <1>2, <1>3, <1>4 DEF TaskOK, Kind, Rail, Active, RailsOf, PortsOf
<1>8. Kind' = "sc" /\ Rail' = rail /\ Active' = mask /\ Asked' = poses[rail]
  BY <1>3, <1>4 DEF Kind, Rail, Active, Asked
<1>9. BoardOK'
  <2>1. \A r \in 0 .. ScRails - 1 :
          /\ <<"sc", r>> \in DOMAIN task'.board
          /\ task'.board[<<"sc", r>>].present <=> r \in mask
    BY <1>5, PresentIs
  <2>2. task'.board[<<"sc", rail>>].at = poses[rail]
    BY <1>5, PresentIs
  <2> QED BY <1>6, <1>8, <2>1, <2>2 DEF BoardOK, RailsOf
<1> QED BY <1>7, <1>9

\* So do those of every trial that is drawn.
LEMMA TrialDrawn ==
    ASSUME args \in ArgSets, Inputs!PrepareTrial
    PROVE  TaskOK' /\ BoardOK'
<1>1. PICK t \in Inputs!Trials(args), w \in Inputs!Worlds(args) :
        task' = [task |-> t.task, board |-> t.board, world |-> w.file,
                 metadata |-> Inputs!Joined(t.metadata, [lighting |-> w.enabled])]
  BY DEF Inputs!PrepareTrial
<1>2. w.file = w.enabled
  <2>1. w = [file |-> FALSE, enabled |-> FALSE] \/ w = [file |-> TRUE, enabled |-> TRUE]
    BY DEF Inputs!Worlds
  <2>2. CASE w = [file |-> FALSE, enabled |-> FALSE]
    BY <2>2, Zenon
  <2>3. CASE w = [file |-> TRUE, enabled |-> TRUE]
    BY <2>3, Zenon
  <2> QED BY <2>1, <2>2, <2>3
<1>3. task' = [task |-> t.task, board |-> t.board, world |-> w.file,
               metadata |-> Inputs!Joined(t.metadata, [lighting |-> w.file])]
  BY <1>1, <1>2
<1>4. PICK mask \in Inputs!Masks(Inputs!RailCount(args), args.min_card_count) :
        \E poses \in [mask -> Translations] :
          t \in IF args.port_type = "sfp"
                THEN {Inputs!make_sfp_trial(mask, rail, port, poses, background) :
                        rail \in mask, port \in 0 .. PortCount - 1, background \in Translations}
                ELSE {Inputs!make_sc_trial(mask, rail, poses) : rail \in mask}
  BY <1>1 DEF Inputs!Trials
<1>0. PICK poses \in [mask -> Translations] :
        t \in IF args.port_type = "sfp"
              THEN {Inputs!make_sfp_trial(mask, rail, port, poses, background) :
                      rail \in mask, port \in 0 .. PortCount - 1, background \in Translations}
              ELSE {Inputs!make_sc_trial(mask, rail, poses) : rail \in mask}
  BY <1>4
<1>5. \A r \in mask : r \in 0 .. Inputs!RailCount(args) - 1
  BY <1>4 DEF Inputs!Masks
<1> DEFINE lit == w.file
<1> HIDE DEF lit
<1>6. task' = [task |-> t.task, board |-> t.board, world |-> lit,
               metadata |-> Inputs!Joined(t.metadata, [lighting |-> lit])]
  BY <1>3 DEF lit
<1>7. CASE args.port_type = "sfp"
  <2>1. PICK rail \in mask, port \in 0 .. PortCount - 1, background \in Translations :
          t = Inputs!make_sfp_trial(mask, rail, port, poses, background)
    BY <1>0, <1>7
  <2>2. \A r \in mask : r \in 0 .. SfpRails - 1
    BY <1>5, <1>7 DEF Inputs!RailCount
  <2> QED BY <1>6, <1>7, <2>1, <2>2, SfpDrawn
<1>8. CASE args.port_type = "sc"
  <2>1. PICK rail \in mask : t = Inputs!make_sc_trial(mask, rail, poses)
    BY <1>0, <1>8
  <2>2. \A r \in mask : r \in 0 .. ScRails - 1
    BY <1>5, <1>8 DEF Inputs!RailCount
  <2> QED BY <1>6, <1>8, <2>1, <2>2, ScDrawn
<1> QED BY <1>7, <1>8, BoardConstants

\* The engine leaves a translation within its limits as it is.
LEMMA ClampIs ==
    ASSUME NEW v \in -RailEnd .. RailEnd
    PROVE  Inputs!Clamp(-RailEnd, RailEnd, v) = v
<1>1. RailEnd \in Nat /\ v \in Int
  BY BoardConstants
<1>2. Inputs!Max({-RailEnd, v}) = v
  <2>1. \A x \in {-RailEnd, v} : (\A y \in {-RailEnd, v} : x >= y) => x = v
    BY <1>1
  <2>2. v \in {-RailEnd, v} /\ \A y \in {-RailEnd, v} : v >= y
    BY <1>1
  <2> QED BY <2>1, <2>2 DEF Inputs!Max
<1>3. Inputs!Min({RailEnd, v}) = v
  <2>1. \A x \in {RailEnd, v} : (\A y \in {RailEnd, v} : x <= y) => x = v
    BY <1>1
  <2>2. v \in {RailEnd, v} /\ \A y \in {RailEnd, v} : v <= y
    BY <1>1
  <2> QED BY <2>1, <2>2 DEF Inputs!Min
<1> QED BY <1>2, <1>3 DEF Inputs!Clamp

\* What the engine asks for and the launch file puts up are the cards of the trial.
LEMMA BoardPutUp ==
    ASSUME TaskOK, BoardOK, Inputs!SpawnBoard
    PROVE  FixturesOK'
<1> DEFINE given == Inputs!BoardParameters(task.board)
           m == Inputs!MountsOf(given)
           s == Inputs!ScPortsOf(given)
           n == Inputs!NicsOf(given)
           n0 == RailsOf(Kind)
<1>1. fixtures' = Inputs!Joined(Inputs!Joined(m, s), n) /\ task' = task
  BY DEF Inputs!SpawnBoard
<1>2. /\ DOMAIN given = Inputs!EngineRails \cup Inputs!Mounts
      /\ \A x \in Inputs!EngineRails : given[x] = Inputs!Parameter(task.board, x)
  BY DEF Inputs!BoardParameters
<1>3. /\ DOMAIN m = {"lc_mount", "sfp_mount", "sc_mount"} \X {0, 1}
      /\ DOMAIN s = {"sc"} \X (0 .. ScSlots - 1)
      /\ DOMAIN n = {"nic"} \X (0 .. SfpRails - 1)
  BY DEF Inputs!MountsOf, Inputs!ScPortsOf, Inputs!NicsOf, Inputs!DeclaredMounts,
         Inputs!DeclaredScPorts, Inputs!DeclaredNics, Inputs!Mounts
<1>4. /\ \A x \in DOMAIN s : s[x] = IF x \in DOMAIN given THEN given[x] ELSE Inputs!Absent
      /\ \A x \in DOMAIN n : n[x] = IF x \in DOMAIN given THEN given[x] ELSE Inputs!Absent
  BY DEF Inputs!ScPortsOf, Inputs!NicsOf, Inputs!DeclaredScPorts, Inputs!DeclaredNics, Inputs!Joined
<1> HIDE DEF given, m, s, n
<1>5. /\ DOMAIN fixtures' = DOMAIN m \cup DOMAIN s \cup DOMAIN n
      /\ \A x \in DOMAIN n : fixtures'[x] = n[x]
      /\ \A x \in DOMAIN s : x \notin DOMAIN n => fixtures'[x] = s[x]
  BY <1>1 DEF Inputs!Joined
<1>6. \A x \in DOMAIN fixtures' : x = <<x[1], x[2]>>
  BY <1>3, <1>5
<1>7. \A r \in 0 .. n0 - 1 : <<Kind, r>> \in Inputs!EngineRails /\ <<Kind, r>> \in DOMAIN given
  BY <1>2 DEF Inputs!EngineRails, RailsOf, TaskOK
<1>8. \A r \in 0 .. n0 - 1 :
        /\ <<Kind, r>> \in DOMAIN fixtures'
        /\ fixtures'[<<Kind, r>>] = Inputs!Parameter(task.board, <<Kind, r>>)
  BY <1>2, <1>3, <1>4, <1>5, <1>7, BoardConstants DEF RailsOf, TaskOK
<1>9. \A x \in DOMAIN fixtures' : x[1] = Kind /\ x[2] \notin 0 .. n0 - 1 => ~fixtures'[x].present
  BY <1>2, <1>3, <1>4, <1>5, PresentIs DEF Inputs!EngineRails, Inputs!Mounts, RailsOf, TaskOK
<1>10. \A r \in 0 .. n0 - 1 : fixtures'[<<Kind, r>>].present <=> r \in Active
  BY <1>8, PresentIs DEF Inputs!Parameter, BoardOK
<1>11. \A r \in Active : r \in 0 .. n0 - 1
  BY DEF TaskOK
<1>12. fixtures'[<<Kind, Rail>>].at = Asked
  <2>1. Rail \in 0 .. n0 - 1 /\ Rail \in Active
    BY DEF TaskOK
  <2>2. fixtures'[<<Kind, Rail>>] = Inputs!Present(Inputs!Clamp(-RailEnd, RailEnd, Asked))
    BY <1>8, <2>1 DEF Inputs!Parameter, BoardOK
  <2> QED BY <2>2, ClampIs, PresentIs DEF BoardOK
<1>13. Kind' = Kind /\ Rail' = Rail /\ Active' = Active /\ Asked' = Asked
  BY <1>1 DEF Kind, Rail, Active, Asked
<1>14. \A x \in DOMAIN fixtures' : x[1] = Kind => (fixtures'[x].present <=> x[2] \in Active)
  <2> SUFFICES ASSUME NEW x \in DOMAIN fixtures', x[1] = Kind
               PROVE  fixtures'[x].present <=> x[2] \in Active
    OBVIOUS
  <2>1. x = <<Kind, x[2]>>
    BY <1>6
  <2>2. CASE x[2] \in 0 .. n0 - 1
    BY <1>10, <2>1, <2>2
  <2>3. CASE x[2] \notin 0 .. n0 - 1
    BY <1>9, <1>11, <2>3
  <2> QED BY <2>2, <2>3
<1> QED BY <1>6, <1>8, <1>11, <1>12, <1>13, <1>14 DEF FixturesOK

\* The cards that stand are those of the mask.
LEMMA StandingAre ==
    ASSUME TaskOK, FixturesOK
    PROVE  {f[2] : f \in {x \in DOMAIN fixtures : x[1] = Kind /\ fixtures[x].present}} = Active
<1> DEFINE S == {x \in DOMAIN fixtures : x[1] = Kind /\ fixtures[x].present}
<1>1. \A x \in S : x[2] \in Active
  BY DEF FixturesOK
<1>2. \A r \in Active : <<Kind, r>> \in S /\ <<Kind, r>>[2] = r
  <2> TAKE r \in Active
  <2> DEFINE x == <<Kind, r>>
  <2>1. x[1] = Kind /\ x[2] = r /\ x \in DOMAIN fixtures
    BY DEF FixturesOK
  <2> HIDE DEF x
  <2>2. fixtures[x].present
    BY <2>1 DEF FixturesOK
  <2> QED BY <2>1, <2>2 DEF x
<1> HIDE DEF S
<1>3. \A r \in Active : \E f \in S : f[2] = r
  BY <1>2
<1> QED BY <1>1, <1>3 DEF S

\* The port frames of the connector of a board are those of its standing cards.
LEMMA FramesAre ==
    ASSUME TaskOK, FixturesOK, NEW f
    PROVE  f \in Inputs!PortFrames(fixtures) /\ f[1][1] = Kind
           <=> \E r \in Active, p \in 0 .. PortsOf(Kind) - 1 : f = <<<<Kind, r>>, p>>
<1> DEFINE S == {x \in DOMAIN fixtures : fixtures[x].present}
           q == 0 .. PortCount - 1
<1>1. f \in Inputs!PortFrames(fixtures)
        <=> f \in S \X q /\ (f[1][1] = "nic" \/ (f[1][1] = "sc" /\ f[2] = 0))
  BY DEF Inputs!PortFrames
<1>2. ASSUME f \in Inputs!PortFrames(fixtures), f[1][1] = Kind
      PROVE  \E r \in Active, p \in 0 .. PortsOf(Kind) - 1 : f = <<<<Kind, r>>, p>>
  <2>1. f = <<f[1], f[2]>> /\ f[1] \in S /\ f[2] \in q
    BY <1>1, <1>2
  <2>2. f[1] = <<Kind, f[1][2]>> /\ f[1][2] \in Active
    BY <1>2, <2>1 DEF FixturesOK
  <2>3. f[2] \in 0 .. PortsOf(Kind) - 1
    <3>1. CASE Kind = "nic"
      BY <2>1, <3>1 DEF PortsOf
    <3>2. CASE Kind = "sc"
      <4>1. f[2] = 0
        BY <1>1, <1>2, <3>2
      <4> QED BY <3>2, <4>1 DEF PortsOf
    <3> QED BY <3>1, <3>2 DEF TaskOK
  <2> DEFINE r == f[1][2]
             p == f[2]
  <2>4. f = <<<<Kind, r>>, p>> /\ r \in Active /\ p \in 0 .. PortsOf(Kind) - 1
    BY <2>1, <2>2, <2>3
  <2> HIDE DEF r, p
  <2> QED BY <2>4
<1>3. ASSUME NEW r \in Active, NEW p \in 0 .. PortsOf(Kind) - 1, f = <<<<Kind, r>>, p>>
      PROVE  f \in Inputs!PortFrames(fixtures) /\ f[1][1] = Kind
  <2> DEFINE x == <<Kind, r>>
  <2>1. x[1] = Kind /\ x[2] = r /\ x \in DOMAIN fixtures /\ f[1] = x /\ f[2] = p /\ f = <<x, p>>
    BY <1>3 DEF FixturesOK
  <2> HIDE DEF x
  <2>2. x \in S
    BY <2>1 DEF FixturesOK
  <2>3. p \in q
    BY BoardConstants DEF PortsOf, TaskOK
  <2>4. f \in S \X q
    BY <2>1, <2>2, <2>3
  <2>5. f[1][1] = "nic" \/ (f[1][1] = "sc" /\ f[2] = 0)
    <3>1. CASE Kind = "nic"
      BY <2>1, <3>1
    <3>2. CASE Kind = "sc"
      <4>1. p = 0
        BY <3>2 DEF PortsOf
      <4> QED BY <2>1, <3>2, <4>1
    <3> QED BY <3>1, <3>2 DEF TaskOK
  <2> QED BY <1>1, <2>1, <2>4, <2>5
<1> QED BY <1>2, <1>3

\* The ports that are asked for: the connector's on every card of the mask.
LEMMA AskedAre ==
    ASSUME TaskOK
    PROVE  Inputs!annotation_port_frames(task.task)
             = {[class |-> Inputs!port_annotation_class(task.task.connector, r, p),
                 frame |-> <<<<Kind, r>>, p>>] : r \in Active, p \in 0 .. PortsOf(Kind) - 1}
<1>1. Inputs!Decoded(task.task.cards) = Active
  <2>1. RailsOf(Kind) \in Nat
    BY BoardConstants DEF RailsOf
  <2>2. \A r \in Active : r \in 0 .. RailsOf(Kind) - 1
    BY DEF TaskOK
  <2> DEFINE n == RailsOf(Kind)
             a == Active
  <2> HIDE DEF n, a
  <2>3. Inputs!Decoded(Inputs!Bits(a, n)) = a
    BY <2>1, <2>2, BitsAre DEF n, a
  <2> QED BY <2>3 DEF n, a, TaskOK
<1>2. (IF task.task.connector = "sfp" THEN PortCount ELSE 1) = PortsOf(Kind)
  BY DEF TaskOK, PortsOf
<1> QED BY <1>1, <1>2 DEF Inputs!annotation_port_frames, Kind

\* Every port that is asked for stands on the board, and the target is among them.
LEMMA AskedFound ==
    ASSUME TaskOK, FixturesOK, NEW asked, asked = Inputs!annotation_port_frames(task.task)
    PROVE  /\ {p.frame : p \in asked} = {f \in Inputs!PortFrames(fixtures) : f[1][1] = Kind}
           /\ \E p \in asked : p.frame = Inputs!TargetFrame(task.task)
           /\ Inputs!TargetFrame(task.task) \in Inputs!PortFrames(fixtures)
           /\ \A p \in asked : p.frame \in Inputs!PortFrames(fixtures)
<1> DEFINE port(r, p) == [class |-> Inputs!port_annotation_class(task.task.connector, r, p),
                          frame |-> <<<<Kind, r>>, p>>]
           q == 0 .. PortsOf(Kind) - 1
<1>1. asked = {port(r, p) : r \in Active, p \in q}
  BY AskedAre
<1>2. \A r, p : port(r, p).frame = <<<<Kind, r>>, p>>
  OBVIOUS
<1> HIDE DEF port, q
<1>3. \A a \in asked : \E r \in Active, p \in q : a.frame = <<<<Kind, r>>, p>>
  BY <1>1, <1>2
<1>4. \A r \in Active, p \in q : \E a \in asked : a.frame = <<<<Kind, r>>, p>>
  BY <1>1, <1>2
<1>5. \A f : f \in Inputs!PortFrames(fixtures) /\ f[1][1] = Kind
               <=> \E r \in Active, p \in q : f = <<<<Kind, r>>, p>>
  BY FramesAre DEF q
<1>6. \A f : f \in {p.frame : p \in asked}
               <=> f \in {g \in Inputs!PortFrames(fixtures) : g[1][1] = Kind}
  <2>1. \A f : f \in {p.frame : p \in asked} <=> \E r \in Active, p \in q : f = <<<<Kind, r>>, p>>
    <3> TAKE f
    <3>1. f \in {p.frame : p \in asked} <=> \E a \in asked : f = a.frame
      OBVIOUS
    <3> QED BY <1>3, <1>4, <3>1
  <2> QED BY <1>5, <2>1
<1>7. \E p \in asked : p.frame = Inputs!TargetFrame(task.task)
  <2>1. Inputs!TargetFrame(task.task) = <<<<Kind, Rail>>, task.task.port>>
    BY DEF TaskOK, Inputs!TargetFrame
  <2>2. Rail \in Active /\ task.task.port \in q
    BY DEF TaskOK, q
  <2> QED BY <1>4, <2>1, <2>2
<1>8. {p.frame : p \in asked} = {f \in Inputs!PortFrames(fixtures) : f[1][1] = Kind}
  BY <1>6
<1>9. \A p \in asked : p.frame \in Inputs!PortFrames(fixtures)
  BY <1>8
<1> QED BY <1>7, <1>8, <1>9

\* The class of an SFP port is a number in base PortCount: its rail, then its port.
LEMMA ClassInjective ==
    ASSUME NEW r \in Nat, NEW s \in Nat, NEW p \in 0 .. PortCount - 1, NEW q \in 0 .. PortCount - 1,
           r * PortCount + p = s * PortCount + q
    PROVE  r = s /\ p = q
<1>1. PortCount \in Nat /\ PortCount > 0
  BY BoardConstants
<1>2. ASSUME NEW a \in Nat, NEW b \in Nat, a < b PROVE a * PortCount + PortCount <= b * PortCount
  <2>1. \E k \in Nat : b = a + 1 + k
    <3>1. b - a - 1 \in Nat /\ b = a + 1 + (b - a - 1)
      BY <1>2
    <3> QED BY <3>1
  <2>2. PICK k \in Nat : b = a + 1 + k
    BY <2>1
  <2>3. b * PortCount = a * PortCount + PortCount + k * PortCount
    BY <1>1, <2>2
  <2>4. k * PortCount \in Nat /\ a * PortCount \in Nat
    BY <1>1, <2>2
  <2> QED BY <1>1, <2>3, <2>4
<1>3. r * PortCount \in Nat /\ s * PortCount \in Nat
  BY <1>1
<1>4. ~ (r < s) /\ ~ (s < r)
  <2>1. r < s => r * PortCount + PortCount <= s * PortCount
    BY <1>2
  <2>2. s < r => s * PortCount + PortCount <= r * PortCount
    BY <1>2
  <2> DEFINE x == r * PortCount
             y == s * PortCount
  <2> HIDE DEF x, y
  <2>3. x \in Nat /\ y \in Nat /\ x + p = y + q
    BY <1>3 DEF x, y
  <2>4. (r < s => x + PortCount <= y) /\ (s < r => y + PortCount <= x)
    BY <2>1, <2>2 DEF x, y
  <2> QED BY <1>1, <2>3, <2>4
<1>5. r = s
  BY <1>4
<1> QED BY <1>3, <1>5

\* Classes are among those the data set names.
LEMMA ClassNamed ==
    ASSUME NEW r \in 0 .. SfpRails - 1, NEW p \in 0 .. PortCount - 1
    PROVE  r * PortCount + p \in 0 .. SfpRails * PortCount
<1>1. PortCount \in Nat /\ PortCount > 0 /\ SfpRails \in Nat /\ r \in Nat
  BY BoardConstants
<1>2. PICK k \in Nat : SfpRails = r + 1 + k
  <2>1. SfpRails - r - 1 \in Nat /\ SfpRails = r + 1 + (SfpRails - r - 1)
    BY <1>1
  <2> QED BY <2>1
<1>3. SfpRails * PortCount = r * PortCount + PortCount + k * PortCount
  BY <1>1, <1>2
<1>4. r * PortCount \in Nat /\ k * PortCount \in Nat
  BY <1>1
<1> DEFINE x == r * PortCount
           y == k * PortCount
           z == SfpRails * PortCount
<1> HIDE DEF x, y, z
<1>5. x + p \in 0 .. z
  BY <1>1, <1>3, <1>4 DEF x, y, z
<1> QED BY <1>5 DEF x, z

\* So is that of every port asked for.
LEMMA ClassesNamed ==
    ASSUME TaskOK, NEW a \in Inputs!annotation_port_frames(task.task)
    PROVE  a.class \in Inputs!ClassNames
<1>1. PICK r \in Active, p \in 0 .. PortsOf(Kind) - 1 :
        a.class = Inputs!port_annotation_class(task.task.connector, r, p)
  <2>1. PICK r \in Active, p \in 0 .. PortsOf(Kind) - 1 :
          a = [class |-> Inputs!port_annotation_class(task.task.connector, r, p),
               frame |-> <<<<Kind, r>>, p>>]
    BY AskedAre
  <2> QED BY <2>1
<1>2. CASE Kind = "nic"
  <2>1. r \in 0 .. SfpRails - 1 /\ p \in 0 .. PortCount - 1 /\ a.class = r * PortCount + p
    BY <1>1, <1>2 DEF TaskOK, RailsOf, PortsOf, Inputs!port_annotation_class
  <2>2. r * PortCount + p \in 0 .. SfpRails * PortCount
    BY <2>1, ClassNamed
  <2> QED BY <2>1, <2>2 DEF Inputs!ClassNames
<1>3. CASE Kind = "sc"
  <2>1. a.class = SfpRails * PortCount
    BY <1>1, <1>3 DEF TaskOK, Inputs!port_annotation_class
  <2>2. SfpRails * PortCount \in Nat
    BY BoardConstants
  <2>3. SfpRails * PortCount \in 0 .. SfpRails * PortCount
    BY <2>2
  <2> QED BY <2>1, <2>3 DEF Inputs!ClassNames
<1> QED BY <1>2, <1>3 DEF TaskOK

\* No two SFP ports have one class.
LEMMA OneClassEach ==
    ASSUME TaskOK, Kind = "nic", NEW asked, asked = Inputs!annotation_port_frames(task.task)
    PROVE  Inputs!Cardinality({p.class : p \in asked}) = Inputs!Cardinality(asked)
<1> DEFINE S == (0 .. SfpRails - 1) \X (0 .. PortCount - 1)
           port(x) == [class |-> x[1] * PortCount + x[2], frame |-> <<<<"nic", x[1]>>, x[2]>>]
           h == [x \in S |-> port(x)]
           C == {p.class : p \in asked}
           g == [a \in asked |-> a.class]
<1>1. \A a \in asked : \E x \in S : a = port(x)
  <2> TAKE a \in asked
  <2>1. PICK r \in Active, p \in 0 .. PortsOf(Kind) - 1 :
          a = [class |-> Inputs!port_annotation_class(task.task.connector, r, p),
               frame |-> <<<<Kind, r>>, p>>]
    BY AskedAre
  <2>2. r \in 0 .. SfpRails - 1 /\ p \in 0 .. PortCount - 1
    BY <2>1 DEF TaskOK, RailsOf, PortsOf
  <2>3. a = [class |-> r * PortCount + p, frame |-> <<<<"nic", r>>, p>>]
    BY <2>1 DEF TaskOK, Inputs!port_annotation_class
  <2>4. <<r, p>> \in S /\ a = port(<<r, p>>)
    BY <2>2, <2>3
  <2> HIDE DEF S, port
  <2> QED BY <2>4
<1>2. IsFiniteSet(asked)
  <2>1. IsFiniteSet(S)
    <3>1. IsFiniteSet(0 .. SfpRails - 1) /\ IsFiniteSet(0 .. PortCount - 1)
      BY BoardConstants, FS_Interval
    <3> QED BY <3>1, FS_Product
  <2> DEFINE T == {h[x] : x \in S}
             U == {port(x) : x \in S}
  <2>2. h \in [S -> U]
    OBVIOUS
  <2>3. asked \subseteq T
    BY <1>1
  <2> HIDE DEF S, h, U
  <2>4. IsFiniteSet(T)
    BY <2>1, <2>2, ValuesFinite
  <2> HIDE DEF T
  <2> QED BY <2>3, <2>4, FS_Subset
<1>3. \A a, b \in asked : a.class = b.class => a = b
  <2> SUFFICES ASSUME NEW a \in asked, NEW b \in asked, a.class = b.class PROVE a = b
    OBVIOUS
  <2>1. PICK x \in S : a = port(x)
    BY <1>1
  <2>2. PICK y \in S : b = port(y)
    BY <1>1
  <2>3. /\ x[1] \in Nat /\ y[1] \in Nat /\ x[2] \in 0 .. PortCount - 1 /\ y[2] \in 0 .. PortCount - 1
        /\ x = <<x[1], x[2]>> /\ y = <<y[1], y[2]>>
    BY <2>1, <2>2
  <2>4. x[1] * PortCount + x[2] = y[1] * PortCount + y[2]
    BY <2>1, <2>2
  <2>5. x[1] = y[1] /\ x[2] = y[2]
    BY <2>3, <2>4, ClassInjective
  <2>6. x = y
    BY <2>3, <2>5
  <2> QED BY <2>1, <2>2, <2>6
<1>4. /\ g \in [asked -> C] /\ (\A v \in C : \E a \in asked : g[a] = v)
      /\ \A a, b \in asked : g[a] = g[b] => a = b
  BY <1>3
<1> HIDE DEF C, g, S, port, h
<1>5. g \in Surjection(asked, C) /\ g \in Injection(asked, C)
  BY <1>4 DEF Surjection, Injection, IsInjective
<1>6. Cardinality(C) = Cardinality(asked)
  BY <1>2, <1>5, FS_Surjection
<1>7. Inputs!Cardinality(C) = Cardinality(C) /\ Inputs!Cardinality(asked) = Cardinality(asked)
  BY Zenon DEF Inputs!Cardinality, Cardinality
<1> QED BY <1>6, <1>7 DEF C

\* A file name gives back the cards.
LEMMA NameTells ==
    ASSUME TaskOK, NEW cards, cards = Inputs!card_mask(task.task)
    PROVE  \A r \in 0 .. Len(cards) - 1 : cards[r + 1] <=> r \in Active
<1> DEFINE n == RailsOf(Kind)
           b == task.task.cards
<1>1. /\ n \in Nat /\ b \in Seq(BOOLEAN) /\ Len(b) = n
      /\ \A i \in 1 .. n : b[i] <=> n - i \in Active
  <2>1. n \in Nat /\ \A r \in Active : r \in 0 .. n - 1
    BY BoardConstants DEF TaskOK, RailsOf
  <2> DEFINE a == Active
  <2>2. b = Inputs!Bits(a, n)
    BY DEF TaskOK
  <2> HIDE DEF n, b, a
  <2>3. \A r \in a : r \in 0 .. n - 1
    BY <2>1 DEF a
  <2>4. Inputs!Bits(a, n) \in Seq(BOOLEAN) /\ Len(Inputs!Bits(a, n)) = n
        /\ \A i \in 1 .. n : Inputs!Bits(a, n)[i] <=> n - i \in a
    BY <2>1, <2>3, BitsAre
  <2> QED BY <2>1, <2>2, <2>4 DEF a
<1>2. cards = [i \in 1 .. Len(b) |-> b[(Len(b) - i) + 1]]
  BY DEF Inputs!card_mask, Inputs!Reverse
<1> HIDE DEF n, b
<1>3. Len(cards) = n /\ \A i \in 1 .. n : cards[i] = b[(n - i) + 1]
  BY <1>1, <1>2
<1>4. ASSUME NEW r \in 0 .. n - 1 PROVE cards[r + 1] <=> r \in Active
  <2>1. r + 1 \in 1 .. n /\ n - r \in 1 .. n /\ n - (n - r) = r /\ (n - (r + 1)) + 1 = n - r
    BY <1>1
  <2>2. cards[r + 1] = b[n - r]
    BY <1>3, <2>1
  <2>3. b[n - r] <=> r \in Active
    BY <1>1, <2>1
  <2> QED BY <2>2, <2>3
<1> QED BY <1>3, <1>4

\* Steps that leave a part alone.
LEMMA SceneKept ==
    ASSUME task' = task
    PROVE  /\ TaskOK => TaskOK'
           /\ FixturesOK /\ UNCHANGED fixtures => FixturesOK'
           /\ ManifestOK /\ UNCHANGED <<policy, manifest>> => ManifestOK'
           /\ PortsOK /\ UNCHANGED <<policy, ports>> => PortsOK'
<1>1. TaskOK => TaskOK'
  BY DEF TaskOK, Kind, Rail, Active
<1>2. FixturesOK /\ UNCHANGED fixtures => FixturesOK'
  BY DEF FixturesOK, Kind, Rail, Active, Asked
<1>3. ManifestOK /\ UNCHANGED <<policy, manifest>> => ManifestOK'
  BY DEF ManifestOK, Inputs!PreserveOccluded
<1>4. PortsOK /\ UNCHANGED <<policy, ports>> => PortsOK'
  BY DEF PortsOK
<1> QED BY <1>1, <1>2, <1>3, <1>4

\* A snapshot finds what it looks for.
LEMMA SnapshotFinds ==
    ASSUME TaskOK, FixturesOK, Inputs!Snapshot
    PROVE  step' = "observe" /\ PortsOK'
<1> DEFINE asked == IF policy.annotate THEN Inputs!annotation_port_frames(task.task) ELSE {}
           found == /\ Inputs!TargetFrame(task.task) \in Inputs!PortFrames(fixtures)
                    /\ \A p \in asked : p.frame \in Inputs!PortFrames(fixtures)
<1>1. /\ step' = IF found THEN "observe" ELSE "failed"
      /\ ports' = IF found THEN asked ELSE {}
      /\ UNCHANGED <<policy, task>>
  BY DEF Inputs!Snapshot
<1>2. found
  BY AskedFound
<1> QED BY <1>1, <1>2 DEF PortsOK

\* What is labelled are ports that were asked for.
LEMMA LabelsWritten ==
    ASSUME Inputs!SaveSample
    PROVE  LabelsOK'
<1>1. PICK target \in Inputs!Views, others \in Inputs!Views :
        LET View(p) == IF p.frame = Inputs!TargetFrame(task.task) THEN target ELSE others
            kept == IF Inputs!PreserveOccluded THEN {"hidden", "seen"} ELSE {"seen"}
        IN  labels' = [file |-> Inputs!image_relative_path(task.task),
                       rows |-> {[class |-> p.class, view |-> View(p)] :
                                   p \in {q \in ports : View(q) \in kept}}]
  BY DEF Inputs!SaveSample
<1> DEFINE View(p) == IF p.frame = Inputs!TargetFrame(task.task) THEN target ELSE others
           kept == IF Inputs!PreserveOccluded THEN {"hidden", "seen"} ELSE {"seen"}
           P == {q \in ports : View(q) \in kept}
<1>2. /\ labels'.file = Inputs!image_relative_path(task.task)
      /\ labels'.rows = {[class |-> p.class, view |-> View(p)] : p \in P}
  BY <1>1
<1>3. labels'.file.cards = Inputs!card_mask(task.task)
  BY <1>2 DEF Inputs!image_relative_path
<1>4. UNCHANGED <<task, policy, ports>>
  BY DEF Inputs!SaveSample
<1>5. \A row \in labels'.rows : \E p \in P : row = [class |-> p.class, view |-> View(p)]
  BY <1>2
<1>6. \A row \in labels'.rows : \E p \in P : row.class = p.class /\ row.view = View(p)
  BY <1>5
<1>7. \A p \in P : p \in ports /\ (~Inputs!PreserveOccluded => View(p) = "seen")
  OBVIOUS
<1> HIDE DEF View, P
<1>8. \A row \in labels'.rows : /\ \E p \in ports : row.class = p.class
                                /\ ~Inputs!PreserveOccluded => row.view = "seen"
  BY <1>6, <1>7
<1>9. Inputs!PreserveOccluded' = Inputs!PreserveOccluded
  BY <1>4 DEF Inputs!PreserveOccluded
<1> QED BY <1>3, <1>4, <1>8, <1>9 DEF LabelsOK

\* Before anything is drawn there is nothing to compare.
LEMMA SceneInitially == Inputs!Init => SceneInv
BY DEF Inputs!Init, SceneInv, Looked, Built

\* One step per action; those of sampling and of the frames leave the scene alone.
LEMMA SceneStep == SceneInv /\ [Inputs!Next]_(Inputs!vars) => SceneInv'
<1> SUFFICES ASSUME SceneInv, [Inputs!Next]_(Inputs!vars) PROVE SceneInv'
  OBVIOUS
<1> USE DEF Looked, Built
<1>1. args \in ArgSets
  BY DEF SceneInv
<1>2. CASE UNCHANGED Inputs!vars
  <2>1. UNCHANGED <<args, step, task, fixtures, policy, manifest, ports, labels>>
    BY <1>2 DEF Inputs!vars
  <2>2. BoardOK => BoardOK'
    BY <2>1 DEF BoardOK, Kind, Rail, Active, Asked
  <2>3. LabelsOK => LabelsOK'
    BY <2>1 DEF LabelsOK, Inputs!PreserveOccluded
  <2> QED BY <2>1, <2>2, <2>3, SceneKept DEF SceneInv
<1>3. CASE Inputs!PrepareArgs
  <2>1. step' \in {"trial", "rejected"} /\ args' = args
    BY <1>3 DEF Inputs!PrepareArgs
  <2> QED BY <1>1, <2>1 DEF SceneInv
<1>4. CASE Inputs!PrepareTrial
  <2>1. step' = "spawn" /\ args' = args
    BY <1>4 DEF Inputs!PrepareTrial
  <2>2. TaskOK' /\ BoardOK'
    BY <1>1, <1>4, TrialDrawn
  <2> QED BY <1>1, <2>1, <2>2 DEF SceneInv
<1>5. CASE Inputs!SpawnBoard
  <2>1. step = "spawn" /\ step' = "policy" /\ UNCHANGED <<args, task>>
    BY <1>5 DEF Inputs!SpawnBoard
  <2>2. TaskOK /\ BoardOK
    BY <2>1 DEF SceneInv
  <2>3. TaskOK' /\ FixturesOK'
    BY <1>5, <2>1, <2>2, BoardPutUp, SceneKept
  <2> QED BY <1>1, <2>1, <2>3 DEF SceneInv
<1>6. CASE \/ Inputs!Construct \/ Inputs!SampleViews \/ Inputs!SampleZero \/ Inputs!SampleTier
  <2>1. /\ step \in {"policy", "sample"} /\ step' \in {"sample", "manifest"}
        /\ UNCHANGED <<args, task, fixtures>>
    BY <1>6 DEF Inputs!Construct, Inputs!SampleViews, Inputs!SampleZero, Inputs!SampleTier
  <2>2. TaskOK /\ FixturesOK
    BY <2>1 DEF SceneInv
  <2>3. TaskOK' /\ FixturesOK'
    BY <2>1, <2>2, SceneKept
  <2> QED BY <1>1, <2>1, <2>3 DEF SceneInv
<1>7. CASE Inputs!WriteManifest
  <2>1. step = "manifest" /\ step' = "task" /\ UNCHANGED <<args, task, fixtures, policy>>
    BY <1>7 DEF Inputs!WriteManifest
  <2>2. TaskOK' /\ FixturesOK'
    BY <2>1, SceneKept DEF SceneInv
  <2>3. ManifestOK'
    BY <1>7, <2>1 DEF Inputs!WriteManifest, ManifestOK, Inputs!PreserveOccluded
  <2> QED BY <1>1, <2>1, <2>2, <2>3 DEF SceneInv
<1>8. CASE Inputs!Snapshot
  <2>1. step = "task" /\ UNCHANGED <<args, task, fixtures, policy, manifest>>
    BY <1>8 DEF Inputs!Snapshot
  <2>2. TaskOK /\ FixturesOK /\ ManifestOK
    BY <2>1 DEF SceneInv
  <2>3. TaskOK' /\ FixturesOK' /\ ManifestOK'
    BY <2>1, <2>2, SceneKept
  <2>4. step' = "observe" /\ PortsOK'
    BY <1>8, <2>2, SnapshotFinds
  <2> QED BY <1>1, <2>1, <2>3, <2>4 DEF SceneInv
<1>9. CASE Inputs!DepthImage \/ Inputs!Observe \/ Inputs!FindDepth \/ Inputs!DepthTimeout
  <2>1. /\ step \in {"observe", "wait", "label"} /\ step' \in {"observe", "wait", "label", "refused"}
        /\ UNCHANGED <<args, task, fixtures, policy, manifest, ports>>
    BY <1>9 DEF Inputs!DepthImage, Inputs!Observe, Inputs!FindDepth, Inputs!DepthTimeout
  <2>2. TaskOK /\ FixturesOK /\ ManifestOK /\ PortsOK
    BY <2>1 DEF SceneInv
  <2>3. TaskOK' /\ FixturesOK' /\ ManifestOK' /\ PortsOK'
    BY <2>1, <2>2, SceneKept
  <2> QED BY <1>1, <2>1, <2>3 DEF SceneInv
<1>10. CASE Inputs!SaveSample
  <2>1. /\ step = "label" /\ step' = "done"
        /\ UNCHANGED <<args, task, fixtures, policy, manifest, ports>>
    BY <1>10 DEF Inputs!SaveSample
  <2>2. TaskOK /\ FixturesOK /\ ManifestOK /\ PortsOK
    BY <2>1 DEF SceneInv
  <2>3. TaskOK' /\ FixturesOK' /\ ManifestOK' /\ PortsOK'
    BY <2>1, <2>2, SceneKept
  <2>4. LabelsOK'
    BY <1>10, LabelsWritten
  <2> QED BY <1>1, <2>1, <2>3, <2>4 DEF SceneInv
<1>11. CASE Inputs!AutoVisibility
  <2>1. step' = "reviewed" /\ args' = args
    BY <1>11 DEF Inputs!AutoVisibility
  <2> QED BY <1>1, <2>1 DEF SceneInv
<1> QED BY <1>2, <1>3, <1>4, <1>5, <1>6, <1>7, <1>8, <1>9, <1>10, <1>11 DEF Inputs!Next

\* scenario.py:361, PortOffsetCollect.py:449, dataset.py:750: whatever board is drawn, the
\* ports that are labelled, the metadata and the file name say what stands on it.
THEOREM LabelsMatchSceneHolds == Inputs!Spec => []LabelsMatchScene
<1>1. SceneInv => LabelsMatchScene
  <2> SUFFICES ASSUME SceneInv, step \in Looked PROVE LabelsMatchScene
    BY DEF LabelsMatchScene, Inputs!LabelsMatchScene, SceneInv, Looked
  <2>1. step # "failed" /\ TaskOK /\ FixturesOK /\ ManifestOK /\ PortsOK /\ (step = "done" => LabelsOK)
    BY DEF SceneInv, Looked, Built
  <2> DEFINE standing == {f[2] : f \in {x \in DOMAIN fixtures : x[1] = Kind /\ fixtures[x].present}}
  <2>2. standing = Active
    BY <2>1, StandingAre
  <2>3. policy.annotate =>
          /\ {p.frame : p \in ports} = {f \in Inputs!PortFrames(fixtures) : f[1][1] = Kind}
          /\ \E p \in ports : p.frame = Inputs!TargetFrame(task.task)
    BY <2>1, AskedFound DEF PortsOK
  <2>4. Kind = "nic" => Inputs!Cardinality({p.class : p \in ports}) = Inputs!Cardinality(ports)
    <3>1. CASE policy.annotate
      BY <2>1, <3>1, OneClassEach DEF PortsOK
    <3>2. CASE ~policy.annotate
      <4>1. ports = {} /\ {p.class : p \in ports} = {}
        BY <2>1, <3>2 DEF PortsOK
      <4> QED BY <4>1
    <3> QED BY <3>1, <3>2
  <2>5. /\ fixtures[task.task.target_module].at =
             IF Kind = "nic" THEN task.metadata.nic_translation ELSE task.metadata.sc_translation
        /\ task.metadata.lighting = task.world
    BY <2>1 DEF FixturesOK, TaskOK, Asked
  <2>6. ASSUME step = "done"
        PROVE  /\ \A r \in 0 .. Len(labels.file.cards) - 1 :
                    labels.file.cards[r + 1] <=> r \in Active
               /\ {row.class : row \in labels.rows} \subseteq manifest.yolo.names
               /\ ~manifest.data.preserve => \A row \in labels.rows : row.view # "hidden"
    <3>1. LabelsOK
      BY <2>1, <2>6
    <3>2. \A r \in 0 .. Len(labels.file.cards) - 1 : labels.file.cards[r + 1] <=> r \in Active
      BY <2>1, <3>1, NameTells DEF LabelsOK
    <3>3. \A p \in ports : p.class \in manifest.yolo.names
      BY <2>1, ClassesNamed DEF PortsOK, ManifestOK
    <3>4. \A row \in labels.rows : \E p \in ports : row.class = p.class
      BY <3>1 DEF LabelsOK
    <3>5. ~manifest.data.preserve => \A row \in labels.rows : row.view # "hidden"
      BY <2>1, <3>1 DEF LabelsOK, ManifestOK
    <3> QED BY <3>2, <3>3, <3>4, <3>5
  <2> HIDE DEF standing
  <2> QED BY <2>1, <2>2, <2>3, <2>4, <2>5, <2>6 DEF standing, LabelsMatchScene, Inputs!LabelsMatchScene, Kind, Active
<1> QED BY <1>1, SceneInitially, SceneStep, PTL DEF Inputs!Spec

-----------------------------------------------------------------------------
(* Plans are safe                                                             *)

Accepted == {"trial", "spawn", "policy", "sample", "manifest"} \cup Looked
            \cup {"task", "refused", "failed"}
Ready == Accepted \ {"trial", "spawn", "policy"}
Declared == Looked \cup {"task", "refused", "failed"}

Positive == {n \in Int : n > 0}
PlanSample == [x : Int, z : Int, turn : Int, tier : Int, distance : Int]

\* What the policy makes of arguments that were accepted.
Between(range) == range \in Int \X Int /\ range[1] <= range[2]
ConfigOK ==
    /\ policy.kind = args.policy /\ policy.kind \in {"near-port", "board-view", "descent"}
    /\ policy.steps = args.steps /\ policy.steps \in Positive
    /\ policy.base \in Int /\ policy.base >= MinClearance
    /\ policy.kind # "near-port" => policy.base = args.base
    /\ Between(policy.board) /\ policy.board[1] >= policy.base
    /\ policy.start \in Int /\ policy.start >= policy.base
    /\ policy.kind # "near-port" => policy.start = args.start
    /\ policy.lateral \in Nat /\ policy.angle \in Nat /\ policy.turn_max \in Nat
    /\ Between(policy.ranges.x) /\ Between(policy.ranges.z) /\ Between(policy.ranges.turn)
    /\ args.dz[1] <= args.dz[2] => policy.ranges.z[1] >= 0
    /\ policy.tiers \in Seq(Positive) /\ Len(policy.tiers) > 0
    /\ policy.weights \in Seq(Positive) /\ Len(policy.weights) = Len(policy.tiers)

\* A sample is within what data.yaml says of the plan.
Within(s, said, dz) ==
    /\ dz[1] <= dz[2] => s.z >= 0
    /\ s.distance \in said.distances[1] .. said.distances[2] /\ s.tier \in said.tiers
    /\ said.collection_policy # "near-port" => s.x \in -said.lateral .. said.lateral
NearPlan ==
    /\ Len(plans) > 0 /\ plans[1].x = 0 /\ plans[1].z = 0 /\ plans[1].turn = 0
    /\ \A i, j \in DOMAIN plans : i <= j => plans[i].tier >= plans[j].tier
DescentPlan ==
    /\ plans[1].distance = policy.start
    /\ policy.steps > 1 => plans[policy.steps].distance = policy.base
    /\ \A i, j \in DOMAIN plans : i <= j => plans[i].distance >= plans[j].distance
PlanOK ==
    /\ plans \in Seq(PlanSample)
    /\ \A i \in DOMAIN plans : Within(plans[i], Inputs!Sampling, args.dz)
    /\ policy.kind = "near-port" => NearPlan

\* A near-port plan under way: what its tiers have yet to get is what it lacks, and
\* no tier that waits is larger than one that had its samples.
Underway ==
    /\ policy.kind = "near-port" /\ PlanOK
    /\ left \in [DOMAIN policy.tiers -> Nat]
    /\ Len(plans) + Inputs!Total(left) = policy.steps
    /\ \A i \in DOMAIN plans, j \in Inputs!Waiting(left) : plans[i].tier >= policy.tiers[j]
Finished == PlanOK /\ Len(plans) = policy.steps /\ (policy.kind = "descent" => DescentPlan)

PlanInv ==
    /\ args \in ArgSets
    /\ step \in Accepted => Inputs!Accepts(args)
    /\ step \in {"args"} \cup (Accepted \ Ready) => plans = Inputs!None
    /\ step \in Ready => ConfigOK
    /\ step = "sample" => plans = Inputs!None \/ Underway
    /\ step \in Ready \ {"sample"} => Finished
    /\ step \in Declared => manifest.data.sampling = Inputs!Sampling

\* The greater and the lesser of two numbers.
LEMMA InputsMaxIs ==
    ASSUME NEW a \in Int, NEW b \in Int
    PROVE  Inputs!Max({a, b}) = IF a >= b THEN a ELSE b
<1>1. CASE a >= b
  <2>1. \A z \in {a, b} : (\A w \in {a, b} : z >= w) <=> z = a
    BY <1>1
  <2> QED BY <1>1, <2>1 DEF Inputs!Max
<1>2. CASE ~(a >= b)
  <2>1. \A z \in {a, b} : (\A w \in {a, b} : z >= w) <=> z = b
    BY <1>2
  <2> QED BY <1>2, <2>1 DEF Inputs!Max
<1> QED BY <1>1, <1>2

LEMMA InputsMinIs ==
    ASSUME NEW a \in Int, NEW b \in Int
    PROVE  Inputs!Min({a, b}) = IF a <= b THEN a ELSE b
<1>1. CASE a <= b
  <2>1. \A z \in {a, b} : (\A w \in {a, b} : z <= w) <=> z = a
    BY <1>1
  <2> QED BY <1>1, <2>1 DEF Inputs!Min
<1>2. CASE ~(a <= b)
  <2>1. \A z \in {a, b} : (\A w \in {a, b} : z <= w) <=> z = b
    BY <1>2
  <2> QED BY <1>2, <2>1 DEF Inputs!Min
<1> QED BY <1>1, <1>2

\* The operators of the library are the same in both modules.
LEMMA SameCardinality == \A S : Inputs!Cardinality(S) = Cardinality(S)
BY Zenon DEF Inputs!Cardinality, Cardinality

LEMMA SameMax == \A S : Inputs!Max(S) = Max(S)
BY Zenon DEF Inputs!Max, Max

\* What is finite of a sequence is what is kept of it.
LEMMA FiniteKept == \A s : Inputs!FiniteOnes(s) = Kept(s, Inputs!Finite)
BY Zenon DEF Inputs!FiniteOnes, Inputs!FoldLeft, Inputs!MapThenFoldSet, Inputs!Max,
             Kept, FoldLeft, MapThenFoldSet, Max

\* Of positive numbers those that are finite are kept.
LEMMA FinitePositive ==
    ASSUME NEW s \in Seq(Positive)
    PROVE  Inputs!FiniteOnes(s) \in Seq(Positive)
<1>1. Kept(s, Inputs!Finite) \in Seq(Positive \cap Inputs!Finite)
  BY KeptOnes
<1> QED BY <1>1, FiniteKept, SeqMono

\* A range that is put in order is one.
LEMMA OrderedIs ==
    ASSUME NEW range \in Int \X Int
    PROVE  Between(Inputs!Ordered(range)) /\ (range[1] <= range[2] => Inputs!Ordered(range) = range)
BY DEF Between, Inputs!Ordered

\* The command lines that are considered.
LEMMA ArgsTyped ==
    /\ {MinClearance, DescentMin, XyLimit} \subseteq Int /\ MinClearance <= DescentMin /\ XyLimit > 0
    /\ \A a \in ArgSets :
         /\ a.policy \in {"near-port", "board-view", "descent"}
         /\ {a.steps, a.base, a.near, a.start, a.lateral, a.angle, a.turn_max} \subseteq Int
         /\ {a.board, a.dx, a.dz, a.turn} \subseteq Int \X Int
         /\ {a.tiers, a.weights} \subseteq Seq(Int)
BY MCLabelsAssumption DEF Inputs!ArgsAssumption

\* A list that is accepted is of positive numbers.
LEMMA PositiveOnes ==
    ASSUME NEW s \in Seq(Int), Inputs!PositiveCsv(s)
    PROVE  s \in Seq(Positive)
<1>1. \A i \in 1 .. Len(s) : s[i] \in Positive
  BY DEF Inputs!PositiveCsv, Positive
<1>2. s \in [1 .. Len(s) -> Positive] /\ Len(s) \in Nat
  BY <1>1
<1> QED BY <1>2

\* What is set up from arguments that were accepted is a configuration.
LEMMA Configures ==
    ASSUME args \in ArgSets, Inputs!Accepts(args), args' = args, policy' = Inputs!Configured(args)
    PROVE  ConfigOK'
<1> DEFINE base == Inputs!Max({MinClearance, IF args.policy = "near-port" THEN args.near
                                              ELSE args.base})
           finite == Inputs!FiniteOnes(args.tiers)
           weighed == Inputs!FiniteOnes(args.weights)
           tiers == IF finite = <<>> THEN <<XyLimit>> ELSE finite
           weights == IF Len(weighed) = Len(tiers) THEN weighed ELSE [i \in DOMAIN tiers |-> 1]
           low  == Inputs!Max({base, args.board[1]})
           high == Inputs!Max({base, args.board[2]})
<1>1. /\ args.steps \in Int /\ args.base \in Int /\ args.near \in Int /\ args.start \in Int
      /\ args.lateral \in Int /\ args.angle \in Int /\ args.turn_max \in Int
      /\ MinClearance \in Int /\ DescentMin \in Int /\ XyLimit \in Int
      /\ MinClearance <= DescentMin /\ XyLimit > 0
  BY ArgsTyped
<1>2. /\ args.policy \in {"near-port", "board-view", "descent"}
      /\ args.board \in Int \X Int /\ args.dx \in Int \X Int /\ args.dz \in Int \X Int
      /\ args.turn \in Int \X Int /\ args.tiers \in Seq(Int) /\ args.weights \in Seq(Int)
  BY ArgsTyped
<1>3. /\ args.steps >= 1 /\ args.base >= DescentMin /\ args.near >= MinClearance
      /\ args.start >= args.base /\ args.lateral >= 0 /\ args.angle >= 0
  BY DEF Inputs!Accepts
<1>4. /\ args.dz[1] >= 0 /\ args.board[1] >= args.base /\ args.board[2] >= args.board[1]
      /\ Inputs!PositiveCsv(args.tiers) /\ Inputs!PositiveCsv(args.weights)
  BY DEF Inputs!Accepts
<1>5. /\ policy'.kind = args.policy /\ policy'.steps = Inputs!Max({1, args.steps})
      /\ policy'.base = base /\ policy'.board = Inputs!Ordered(<<low, high>>)
      /\ policy'.start = Inputs!Max({base, args.start})
      /\ policy'.lateral = Inputs!Max({0, args.lateral}) /\ policy'.angle = Inputs!Max({0, args.angle})
      /\ policy'.turn_max = Inputs!Max({0, args.turn_max})
      /\ policy'.ranges.x = Inputs!Ordered(args.dx) /\ policy'.ranges.z = Inputs!Ordered(args.dz)
      /\ policy'.ranges.turn = Inputs!Ordered(args.turn)
      /\ policy'.tiers = tiers /\ policy'.weights = weights
  BY Zenon DEF Inputs!Configured
<1>6. /\ base \in Int /\ base >= MinClearance
      /\ args.policy # "near-port" => base = args.base
      /\ args.policy = "near-port" => base = args.near
  <2> DEFINE own == IF args.policy = "near-port" THEN args.near ELSE args.base
  <2>1. own \in Int /\ own >= MinClearance
    BY <1>1, <1>3
  <2> HIDE DEF own
  <2>2. Inputs!Max({MinClearance, own}) = own
    BY <1>1, <2>1, InputsMaxIs
  <2>3. base = own
    BY <2>2 DEF own
  <2> QED BY <2>1, <2>3 DEF own
<1>7. args.tiers \in Seq(Positive) /\ args.weights \in Seq(Positive)
  BY <1>2, <1>4, PositiveOnes
<1>8. finite \in Seq(Positive) /\ weighed \in Seq(Positive)
  BY <1>7, FinitePositive
<1> HIDE DEF base, finite, weighed
<1>9. tiers \in Seq(Positive) /\ Len(tiers) > 0
  <2>1. CASE finite = <<>>
    BY <1>1, <2>1 DEF Positive
  <2>2. CASE finite # <<>>
    BY <1>8, <2>2
  <2> QED BY <2>1, <2>2
<1> HIDE DEF tiers
<1>10. weights \in Seq(Positive) /\ Len(weights) = Len(tiers)
  <2>1. CASE Len(weighed) = Len(tiers)
    BY <1>8, <2>1
  <2>2. CASE Len(weighed) # Len(tiers)
    <3>1. weights = [i \in DOMAIN tiers |-> 1] /\ DOMAIN tiers = 1 .. Len(tiers) /\ Len(tiers) \in Nat
      BY <1>9, <2>2
    <3>2. 1 \in Positive
      BY DEF Positive
    <3> QED BY <3>1, <3>2
  <2> QED BY <2>1, <2>2
<1> HIDE DEF weights
<1>11. policy'.steps = args.steps /\ policy'.steps \in Positive
  <2>1. Inputs!Max({1, args.steps}) = args.steps
    BY <1>1, <1>3, InputsMaxIs
  <2> QED BY <1>1, <1>3, <1>5, <2>1 DEF Positive
<1>12. Between(policy'.board) /\ policy'.board[1] >= base
  <2>1. /\ args.board[1] \in Int /\ args.board[2] \in Int
        /\ args.board[1] >= args.base /\ args.board[2] >= args.board[1]
    BY <1>2, <1>4
  <2>2. low \in Int /\ high \in Int /\ low <= high /\ low >= base
    BY <1>6, <2>1, InputsMaxIs
  <2> HIDE DEF low, high
  <2>3. <<low, high>> \in Int \X Int
    BY <2>2
  <2> QED BY <1>5, <2>2, <2>3, OrderedIs
<1>13. /\ policy'.start \in Int /\ policy'.start >= base
       /\ args.policy # "near-port" => policy'.start = args.start
  <2>1. Inputs!Max({base, args.start}) = IF base >= args.start THEN base ELSE args.start
    BY <1>1, <1>6, InputsMaxIs
  <2> QED BY <1>1, <1>3, <1>5, <1>6, <2>1
<1>14. policy'.lateral \in Nat /\ policy'.angle \in Nat /\ policy'.turn_max \in Nat
  <2>1. /\ Inputs!Max({0, args.lateral}) = args.lateral /\ Inputs!Max({0, args.angle}) = args.angle
        /\ Inputs!Max({0, args.turn_max}) = IF 0 >= args.turn_max THEN 0 ELSE args.turn_max
    BY <1>1, <1>3, InputsMaxIs
  <2> QED BY <1>1, <1>3, <1>5, <2>1
<1>15. Between(policy'.ranges.x) /\ Between(policy'.ranges.z) /\ Between(policy'.ranges.turn)
  BY <1>2, <1>5, OrderedIs
<1>16. args.dz[1] <= args.dz[2] => policy'.ranges.z[1] >= 0
  BY <1>2, <1>4, <1>5, OrderedIs
<1> QED BY <1>2, <1>5, <1>6, <1>9, <1>10, <1>11, <1>12, <1>13, <1>14, <1>15, <1>16 DEF ConfigOK

\* A part of a width is not more than the width; division keeps the order.
LEMMA ShareBounds ==
    ASSUME NEW w \in Nat, NEW n \in Positive, NEW k \in 0 .. n
    PROVE  (k * w) \div n \in 0 .. w
<1>1. k * w \in Nat /\ k * w <= n * w
  BY DEF Positive
<1> QED BY <1>1 DEF Positive

LEMMA DivMonotone ==
    ASSUME NEW a \in Int, NEW b \in Int, a <= b, NEW n \in Positive
    PROVE  a \div n \in Int /\ a \div n <= b \div n /\ (a >= 0 => a \div n >= 0)
BY DEF Positive

\* The values of an axis are within its range.
LEMMA AxisValues ==
    ASSUME NEW range, Between(range), NEW n \in Nat, NEW d \in Inputs!AxisSamples(range, n)
    PROVE  d \in [1 .. n -> range[1] .. range[2]]
<1> DEFINE w == range[2] - range[1]
<1>1. range[1] \in Int /\ range[2] \in Int /\ w \in Nat
  BY DEF Between
<1>2. PICK order \in Inputs!Orders(n), end \in [1 .. n -> {0, 1}] :
        d = [i \in 1 .. n |-> range[1] + ((order[i] - 1 + end[i]) * w) \div n]
  BY DEF Inputs!AxisSamples
<1>3. order \in [1 .. n -> 1 .. n]
  BY DEF Inputs!Orders
<1> HIDE DEF w
<1>4. ASSUME NEW i \in 1 .. n
      PROVE  d[i] \in range[1] .. range[2]
  <2> DEFINE k == order[i] - 1 + end[i]
  <2>1. k \in 0 .. n /\ n \in Positive
    <3>1. order[i] \in 1 .. n
      BY <1>3, <1>4
    <3>2. end[i] \in {0, 1}
      BY <1>4
    <3> QED BY <3>1, <3>2 DEF Positive
  <2>2. d[i] = range[1] + (k * w) \div n
    BY <1>2, <1>4
  <2> HIDE DEF k
  <2>3. (k * w) \div n \in 0 .. w
    BY <1>1, <2>1, ShareBounds
  <2> QED BY <1>1, <2>2, <2>3 DEF w
<1> QED BY <1>2, <1>4

\* A range that is scaled is a range.
LEMMA ScaledRange ==
    ASSUME NEW range, Between(range), NEW tier \in Positive, NEW largest \in Positive,
           NEW scaled, scaled = <<(range[1] * tier) \div largest, (range[2] * tier) \div largest>>
    PROVE  Between(scaled) /\ (range[1] >= 0 => scaled[1] >= 0)
<1> DEFINE a == range[1] * tier
           b == range[2] * tier
<1>1. a \in Int /\ b \in Int /\ a <= b /\ (range[1] >= 0 => a >= 0)
  BY DEF Between, Positive
<1>2. scaled = <<a \div largest, b \div largest>>
  OBVIOUS
<1> HIDE DEF a, b
<1> QED BY <1>1, <1>2, DivMonotone DEF Between

\* The total of counts is the number of their places.
Counted(S, c) ==
    /\ \A p : p \in Inputs!Places(c) <=> \E i \in S : \E k \in 1 .. c[i] : p = <<i, k>>
    /\ IsFiniteSet(Inputs!Places(c))
    /\ Inputs!Total(c) = Cardinality(Inputs!Places(c)) /\ Inputs!Total(c) \in Nat
    /\ Inputs!Total(c) = 0 <=> Inputs!Waiting(c) = {}

\* The places of the counts of finitely many tiers are finitely many.
LEMMA PlacesAre ==
    ASSUME NEW S, IsFiniteSet(S), NEW c \in [S -> Nat]
    PROVE  Counted(S, c)
<1> DEFINE g == [i \in S |-> {i} \X (1 .. c[i])]
           T == {g[i] : i \in S}
           P == Inputs!Places(c)
<1>1. DOMAIN c = S /\ (\A i \in S : c[i] \in Nat)
  OBVIOUS
<1>2. P = UNION T
  BY <1>1 DEF Inputs!Places
<1>3. \A p : p \in P <=> \E i \in S : \E k \in 1 .. c[i] : p = <<i, k>>
  <2>1. \A p : p \in P <=> \E i \in S : p \in {i} \X (1 .. c[i])
    BY <1>2
  <2> QED BY <2>1
<1>4. IsFiniteSet(P)
  <2>1. ASSUME NEW i \in S
        PROVE  IsFiniteSet(g[i])
    <3>1. IsFiniteSet({i})
      BY FS_Singleton
    <3>2. IsFiniteSet(1 .. c[i])
      <4>1. c[i] \in Int
        BY <1>1
      <4> QED BY <4>1, FS_Interval
    <3>3. IsFiniteSet({i} \X (1 .. c[i]))
      BY <3>1, <3>2, FS_Product
    <3> QED BY <3>3
  <2>2. \E U : g \in [S -> U]
    <3> WITNESS T
    <3> QED OBVIOUS
  <2> HIDE DEF g
  <2>3. IsFiniteSet(T)
    <3>1. PICK U : g \in [S -> U]
      BY <2>2
    <3> QED BY <3>1, ValuesFinite
  <2>4. \A u \in T : IsFiniteSet(u)
    BY <2>1
  <2> HIDE DEF T
  <2> QED BY <1>2, <2>3, <2>4, FS_UNION
<1>5. Inputs!Total(c) = Cardinality(P)
  BY SameCardinality DEF Inputs!Total
<1> HIDE DEF P
<1>6. Cardinality(P) \in Nat /\ (Cardinality(P) = 0 <=> P = {})
  BY <1>4, FS_CardinalityType, FS_EmptySet
<1>7. P = {} <=> Inputs!Waiting(c) = {}
  <2>1. ASSUME NEW i \in S, c[i] > 0
        PROVE  P # {}
    <3>1. 1 \in 1 .. c[i]
      BY <1>1, <2>1
    <3>2. <<i, 1>> \in P
      BY <1>3, <3>1
    <3> QED BY <3>2
  <2>2. ASSUME NEW p \in P
        PROVE  \E i \in S : c[i] > 0
    <3>1. PICK i \in S : \E k \in 1 .. c[i] : p = <<i, k>>
      BY <1>3, <2>2
    <3>2. c[i] > 0
      BY <1>1, <3>1
    <3> QED BY <3>2
  <2>3. Inputs!Waiting(c) = {i \in S : c[i] > 0}
    BY <1>1 DEF Inputs!Waiting
  <2> QED BY <2>1, <2>2, <2>3
<1> QED BY <1>3, <1>4, <1>5, <1>6, <1>7 DEF P, Counted

\* d has n fewer than c.
Fewer(S, c, d, n) ==
    /\ d \in [S -> Nat] /\ Counted(S, d) /\ Inputs!Total(d) + n = Inputs!Total(c)

\* What is taken from one tier is taken from the total.
LEMMA TotalTaken ==
    ASSUME NEW S, IsFiniteSet(S), NEW c \in [S -> Nat], NEW i \in S, NEW n \in 0 .. c[i],
           NEW d, d = [c EXCEPT ![i] = c[i] - n]
    PROVE  Fewer(S, c, d, n)
<1> DEFINE m == c[i] - n
<1>1. c[i] \in Nat /\ m \in 0 .. c[i] /\ n = c[i] - m /\ n \in Nat /\ d = [c EXCEPT ![i] = m]
  OBVIOUS
<1> HIDE DEF m
<1>2. c[i] \in Nat /\ m \in Nat /\ m <= c[i]
  BY <1>1
<1>3. d \in [S -> Nat] /\ d[i] = m /\ \A j \in S : j # i => d[j] = c[j]
  BY <1>1, <1>2
<1> DEFINE P == Inputs!Places(c)
           Q == Inputs!Places(d)
           R == {i} \X (m + 1 .. c[i])
<1>4. /\ \A p : p \in P <=> \E j \in S : \E k \in 1 .. c[j] : p = <<j, k>>
      /\ IsFiniteSet(P) /\ Inputs!Total(c) = Cardinality(P) /\ Inputs!Total(c) \in Nat
  BY PlacesAre DEF Counted
<1>5. /\ \A p : p \in Q <=> \E j \in S : \E k \in 1 .. d[j] : p = <<j, k>>
      /\ IsFiniteSet(Q) /\ Inputs!Total(d) = Cardinality(Q) /\ Inputs!Total(d) \in Nat
  <2>1. d \in [S -> Nat]
    BY <1>3
  <2>2. Counted(S, d)
    BY <2>1, PlacesAre
  <2> QED BY <2>2 DEF Counted
<1>6. IsFiniteSet(R) /\ Cardinality(R) = c[i] - m
  <2>1. IsFiniteSet({i}) /\ Cardinality({i}) = 1
    BY FS_Singleton
  <2>2. IsFiniteSet(m + 1 .. c[i]) /\ Cardinality(m + 1 .. c[i]) = c[i] - m
    <3>1. m + 1 \in Int /\ c[i] \in Int
      BY <1>2
    <3>2. /\ IsFiniteSet(m + 1 .. c[i])
          /\ Cardinality(m + 1 .. c[i]) = IF m + 1 > c[i] THEN 0 ELSE c[i] - (m + 1) + 1
      BY <3>1, FS_Interval
    <3> QED BY <1>2, <3>2
  <2>3. IsFiniteSet(R) /\ Cardinality(R) = Cardinality({i}) * Cardinality(m + 1 .. c[i])
    BY <2>1, <2>2, FS_Product
  <2> QED BY <1>2, <2>1, <2>2, <2>3
<1>7. \A p : p \in R <=> \E k \in m + 1 .. c[i] : p = <<i, k>>
  OBVIOUS
<1> HIDE DEF P, Q, R
<1>8. P = Q \cup R /\ Q \cap R = {}
  <2>1. ASSUME NEW j \in S, NEW k \in 1 .. c[j]
        PROVE  <<j, k>> \in Q \/ <<j, k>> \in R
    <3>1. CASE j # i \/ k <= m
      <4>1. c[j] \in Nat /\ k \in Int
        BY <2>1
      <4>2. k \in 1 .. d[j]
        BY <1>2, <1>3, <2>1, <3>1, <4>1
      <4> QED BY <1>5, <4>2
    <3>2. CASE j = i /\ ~(k <= m)
      <4>1. k \in m + 1 .. c[i]
        BY <1>2, <2>1, <3>2
      <4> QED BY <1>7, <3>2, <4>1
    <3> QED BY <3>1, <3>2
  <2>2. ASSUME NEW j \in S, NEW k \in 1 .. d[j]
        PROVE  <<j, k>> \in P /\ <<j, k>> \notin R
    <3>1. k \in 1 .. c[j] /\ (j = i => k <= m)
      <4>1. CASE j = i
        BY <1>2, <1>3, <2>2, <4>1
      <4>2. CASE j # i
        BY <1>3, <2>2, <4>2
      <4> QED BY <4>1, <4>2
    <3>2. <<j, k>> \in R => j = i /\ k \in m + 1 .. c[i]
      BY <1>7
    <3> QED BY <1>2, <1>4, <3>1, <3>2
  <2>3. ASSUME NEW k \in m + 1 .. c[i]
        PROVE  <<i, k>> \in P
    <3>1. k \in 1 .. c[i]
      BY <1>2, <2>3
    <3> QED BY <1>4, <3>1
  <2>4. \A p : p \in P => p \in Q \/ p \in R
    BY <1>4, <2>1
  <2>5. \A p : p \in Q => p \in P /\ p \notin R
    BY <1>5, <2>2
  <2>6. \A p : p \in R => p \in P
    BY <1>7, <2>3
  <2> QED BY <2>4, <2>5, <2>6
<1>9. Cardinality(P) = Cardinality(Q) + Cardinality(R)
  <2>1. Cardinality(Q \cup R) = Cardinality(Q) + Cardinality(R) - Cardinality(Q \cap R)
    BY <1>5, <1>6, FS_Union
  <2>2. Cardinality(Q \cap R) = 0
    BY <1>8, FS_EmptySet
  <2> QED BY <1>2, <1>5, <1>6, <1>8, <2>1, <2>2
<1>10. Counted(S, d)
  <2>1. d \in [S -> Nat]
    BY <1>3
  <2> QED BY <2>1, PlacesAre
<1>11. Inputs!Total(d) + n = Inputs!Total(c)
  BY <1>1, <1>2, <1>4, <1>5, <1>6, <1>9
<1> QED BY <1>3, <1>10, <1>11 DEF Fewer

\* One more for some of the tiers adds their number to the total.
LEMMA TotalMore ==
    ASSUME NEW S, IsFiniteSet(S), NEW c \in [S -> Nat], NEW more, more \subseteq S,
           NEW d, d = [i \in S |-> c[i] + IF i \in more THEN 1 ELSE 0]
    PROVE  /\ d \in [S -> Nat] /\ Counted(S, d)
           /\ Inputs!Total(d) = Inputs!Total(c) + Cardinality(more)
<1>1. /\ d \in [S -> Nat]
      /\ \A i \in S : d[i] = c[i] + IF i \in more THEN 1 ELSE 0
  OBVIOUS
<1>2. IsFiniteSet(more)
  BY FS_Subset
<1> DEFINE P == Inputs!Places(c)
           Q == Inputs!Places(d)
           R == {<<i, c[i] + 1>> : i \in more}
           g == [i \in more |-> <<i, c[i] + 1>>]
<1>3. Counted(S, d)
  BY <1>1, PlacesAre
<1>4. Counted(S, c)
  BY PlacesAre
<1>5. IsFiniteSet(R) /\ Cardinality(R) = Cardinality(more)
  <2>1. g \in [more -> R] /\ (\A v \in R : \E i \in more : g[i] = v)
    OBVIOUS
  <2>2. \A i, j \in more : g[i] = g[j] => i = j
    OBVIOUS
  <2> HIDE DEF g, R
  <2>3. g \in Surjection(more, R)
    BY <2>1 DEF Surjection
  <2>4. g \in Injection(more, R)
    BY <2>1, <2>2 DEF Injection, IsInjective
  <2> QED BY <1>2, <2>3, <2>4, FS_Surjection
<1>6. \A i \in S : c[i] \in Nat
  OBVIOUS
<1>7. Q = P \cup R /\ P \cap R = {}
  <2>1. \A p : p \in P <=> \E i \in S : \E k \in 1 .. c[i] : p = <<i, k>>
    BY <1>4 DEF Counted
  <2>2. \A p : p \in Q <=> \E i \in S : \E k \in 1 .. d[i] : p = <<i, k>>
    BY <1>3 DEF Counted
  <2>3. \A p : p \in R <=> \E i \in more : p = <<i, c[i] + 1>>
    OBVIOUS
  <2> HIDE DEF P, Q, R
  <2>4. ASSUME NEW i \in S, NEW k \in 1 .. d[i]
        PROVE  <<i, k>> \in P \/ <<i, k>> \in R
    <3>1. CASE k <= c[i]
      <4>1. k \in 1 .. c[i]
        BY <1>1, <1>6, <2>4, <3>1
      <4> QED BY <2>1, <4>1
    <3>2. CASE ~(k <= c[i])
      <4>1. i \in more /\ k = c[i] + 1
        BY <1>1, <1>6, <2>4, <3>2
      <4> QED BY <2>3, <4>1
    <3> QED BY <3>1, <3>2
  <2>5. ASSUME NEW i \in S, NEW k \in 1 .. c[i]
        PROVE  <<i, k>> \in Q /\ <<i, k>> \notin R
    <3>1. k \in 1 .. d[i] /\ k # c[i] + 1
      BY <1>1, <1>6, <2>5
    <3>2. <<i, k>> \in R => k = c[i] + 1
      BY <2>3
    <3> QED BY <2>2, <3>1, <3>2
  <2>6. ASSUME NEW i \in more
        PROVE  <<i, c[i] + 1>> \in Q
    <3>1. i \in S /\ c[i] + 1 \in 1 .. d[i]
      BY <1>1, <1>6, <2>6
    <3> QED BY <2>2, <3>1
  <2>7. \A p : p \in Q => p \in P \/ p \in R
    BY <2>2, <2>4
  <2>8. \A p : p \in P => p \in Q /\ p \notin R
    BY <2>1, <2>5
  <2>9. \A p : p \in R => p \in Q
    BY <2>3, <2>6
  <2> QED BY <2>7, <2>8, <2>9
<1>8. Cardinality(Q) = Cardinality(P) + Cardinality(R)
  <2>1. IsFiniteSet(P)
    BY <1>4 DEF Counted
  <2> HIDE DEF P, Q, R
  <2>2. Cardinality(P \cup R) = Cardinality(P) + Cardinality(R) - Cardinality(P \cap R)
    BY <1>5, <2>1, FS_Union
  <2>3. Cardinality(P \cap R) = 0
    BY <1>7, FS_EmptySet
  <2>4. Cardinality(P) \in Nat /\ Cardinality(R) \in Nat
    BY <1>5, <2>1, FS_CardinalityType
  <2> QED BY <1>7, <2>2, <2>3, <2>4
<1>9. Inputs!Total(d) = Cardinality(Q) /\ Inputs!Total(c) = Cardinality(P)
  BY <1>3, <1>4 DEF Counted
<1> QED BY <1>1, <1>3, <1>5, <1>8, <1>9

\* The tiers get as many samples as there are steps.
LEMMA CountsAre ==
    ASSUME ConfigOK, NEW counts \in Inputs!Counts
    PROVE  counts \in [DOMAIN policy.tiers -> Nat] /\ Inputs!Total(counts) = policy.steps
<1> DEFINE W == policy.weights
           S == DOMAIN W
           n == policy.steps
           share == [i \in S |-> (W[i] * n) \div Inputs!Total(W)]
<1>1. /\ W \in Seq(Positive) /\ Len(W) = Len(policy.tiers) /\ Len(W) > 0
      /\ policy.tiers \in Seq(Positive) /\ n \in Positive
  BY DEF ConfigOK
<1>2. /\ S = DOMAIN policy.tiers /\ IsFiniteSet(S) /\ 1 \in S /\ W \in [S -> Nat]
      /\ \A i \in S : W[i] \in Positive
  <2>1. S = 1 .. Len(W) /\ Len(W) \in Nat /\ DOMAIN policy.tiers = 1 .. Len(policy.tiers)
    BY <1>1
  <2>2. IsFiniteSet(1 .. Len(W))
    BY <2>1, FS_Interval
  <2>3. \A i \in S : W[i] \in Positive
    BY <1>1
  <2>4. W \in [S -> Nat]
    BY <1>1, <2>1, <2>3 DEF Positive
  <2> QED BY <1>1, <2>1, <2>2, <2>3, <2>4
<1>3. Inputs!Total(W) \in Positive
  <2> HIDE DEF W
  <2>1. Counted(S, W)
    BY <1>2, PlacesAre
  <2>2. 1 \in Inputs!Waiting(W)
    BY <1>2 DEF Inputs!Waiting, Positive
  <2> QED BY <2>1, <2>2 DEF Counted, Positive
<1>4. PICK more \in SUBSET S :
        /\ Inputs!Cardinality(more) = n - Inputs!Total(share)
        /\ counts = [i \in S |-> share[i] + IF i \in more THEN 1 ELSE 0]
  BY DEF Inputs!Counts
<1> HIDE DEF W
<1>5. share \in [S -> Nat]
  <2>1. ASSUME NEW i \in S
        PROVE  (W[i] * n) \div Inputs!Total(W) \in Nat
    <3>1. W[i] * n \in Nat
      BY <1>1, <1>2 DEF Positive
    <3> QED BY <1>3, <3>1 DEF Positive
  <2> QED BY <2>1
<1> HIDE DEF share
<1>6. Counted(S, share)
  BY <1>2, <1>5, PlacesAre
<1>7. Inputs!Total(share) \in Nat
  BY <1>6 DEF Counted
<1>8. counts \in [S -> Nat] /\ Inputs!Total(counts) = Inputs!Total(share) + Cardinality(more)
  BY <1>2, <1>4, <1>5, TotalMore
<1>9. Cardinality(more) = n - Inputs!Total(share)
  BY <1>4, SameCardinality
<1> QED BY <1>1, <1>2, <1>7, <1>8, <1>9 DEF Positive

\* A sample of a near-port plan is within what is said when its tier is one.
LEMMA NearWithin ==
    ASSUME policy.kind = "near-port", policy.base \in Int,
           NEW s, s.distance = policy.base, s.tier \in Inputs!Range(policy.tiers),
           args.dz[1] <= args.dz[2] => s.z >= 0
    PROVE  Within(s, Inputs!Sampling, args.dz)
<1> DEFINE said == Inputs!Sampling
<1>1. /\ said.distances = <<policy.base, policy.base>> /\ said.tiers = Inputs!Range(policy.tiers)
      /\ said.collection_policy = "near-port"
  BY DEF Inputs!Sampling
<1> HIDE DEF said
<1>2. s.distance \in said.distances[1] .. said.distances[2]
  BY <1>1
<1>3. Within(s, said, args.dz)
  BY <1>1, <1>2 DEF Within
<1> QED BY <1>3 DEF said

\* The largest tier of a configuration is a limit.
LEMMA LargestTier ==
    ASSUME ConfigOK
    PROVE  Inputs!Max(Inputs!Range(policy.tiers)) \in Positive
<1> DEFINE S == DOMAIN policy.tiers
           T == policy.tiers
           V == {T[i] : i \in S}
<1>1. T \in Seq(Positive) /\ S = 1 .. Len(T) /\ Len(T) \in Nat /\ Len(T) > 0
  BY DEF ConfigOK
<1>2. T \in [S -> Positive] /\ 1 \in S /\ \A i \in S : T[i] \in Positive
  BY <1>1
<1>3. IsFiniteSet(S)
  <2>1. IsFiniteSet(1 .. Len(T))
    BY <1>1, FS_Interval
  <2> QED BY <1>1, <2>1
<1> HIDE DEF T, S
<1>4. IsFiniteSet(V)
  BY <1>2, <1>3, ValuesFinite
<1>5. V # {} /\ \A v \in V : v \in Positive
  BY <1>2
<1> HIDE DEF V
<1>6. Max(V) \in V
  <2>1. \A v \in V : v \in Int
    BY <1>5 DEF Positive
  <2> QED BY <1>4, <1>5, <2>1, MaxIsLargest
<1>7. Inputs!Range(policy.tiers) = V
  BY DEF Inputs!Range, V, T, S
<1> QED BY <1>5, <1>6, <1>7, SameMax

\* The first sample is the port's axis, in a tier no tier that waits is larger than.
LEMMA ZeroSampled ==
    ASSUME ConfigOK, Inputs!SampleZero
    PROVE  Underway' /\ (step' = "manifest" => Finished') /\ step' \in {"sample", "manifest"}
<1>1. PICK counts \in Inputs!Counts : \E first \in Inputs!Largest(counts) :
        /\ plans' = <<Inputs!Planned(0, 0, 0, policy.tiers[first], policy.base)>>
        /\ left' = [counts EXCEPT ![first] = @ - 1]
  BY DEF Inputs!SampleZero
<1>2. PICK first \in Inputs!Largest(counts) :
        /\ plans' = <<Inputs!Planned(0, 0, 0, policy.tiers[first], policy.base)>>
        /\ left' = [counts EXCEPT ![first] = @ - 1]
  BY <1>1
<1>3. /\ policy.kind = "near-port" /\ policy' = policy /\ args' = args
      /\ step' = IF Inputs!Waiting(left') = {} THEN "manifest" ELSE "sample"
  BY DEF Inputs!SampleZero
<1> DEFINE S == DOMAIN policy.tiers
<1>4. counts \in [S -> Nat] /\ Inputs!Total(counts) = policy.steps
  BY CountsAre
<1>5. /\ S = 1 .. Len(policy.tiers) /\ Len(policy.tiers) \in Nat
      /\ (\A i \in S : policy.tiers[i] \in Int) /\ policy.base \in Int /\ policy.steps \in Int
  <2> DEFINE T == policy.tiers
  <2>1. T \in Seq(Positive) /\ policy.base \in Int /\ policy.steps \in Positive
    BY DEF ConfigOK
  <2> HIDE DEF T
  <2>2. (\A i \in DOMAIN T : T[i] \in Int) /\ DOMAIN T = 1 .. Len(T) /\ Len(T) \in Nat
    BY <2>1 DEF Positive
  <2> QED BY <2>1, <2>2 DEF T, Positive
<1>6. IsFiniteSet(S)
  <2>1. IsFiniteSet(1 .. Len(policy.tiers))
    BY <1>5, FS_Interval
  <2> QED BY <1>5, <2>1
<1> HIDE DEF S
<1>7. /\ first \in S /\ counts[first] > 0 /\ counts[first] \in Nat
      /\ \A j \in S : counts[j] > 0 => policy.tiers[j] <= policy.tiers[first]
  BY <1>4 DEF Inputs!Largest, Inputs!Waiting
<1>8. Fewer(S, counts, left', 1)
  <2>1. 1 \in 0 .. counts[first] /\ left' = [counts EXCEPT ![first] = counts[first] - 1]
    BY <1>2, <1>4, <1>7
  <2> QED BY <1>4, <1>6, <1>7, <2>1, TotalTaken
<1>9. left' \in [S -> Nat] /\ Counted(S, left') /\ Inputs!Total(left') + 1 = policy.steps
      /\ Inputs!Total(left') \in Nat
  BY <1>4, <1>8 DEF Fewer, Counted
<1>10. \A j \in Inputs!Waiting(left') : j \in S /\ policy.tiers[j] <= policy.tiers[first]
  <2>1. \A j \in S : left'[j] > 0 => counts[j] > 0
    BY <1>2, <1>4, <1>7
  <2> QED BY <1>7, <1>9, <2>1 DEF Inputs!Waiting
<1>11. PlanOK' /\ Len(plans') = 1 /\ DOMAIN plans' = {1} /\ plans'[1].tier = policy.tiers[first]
  <2>1. PICK s \in PlanSample :
          /\ s.x = 0 /\ s.z = 0 /\ s.turn = 0 /\ s.tier = policy.tiers[first]
          /\ s.distance = policy.base /\ plans' = <<s>>
    <3> DEFINE r == Inputs!Planned(0, 0, 0, policy.tiers[first], policy.base)
    <3>1. /\ r \in PlanSample /\ r.x = 0 /\ r.z = 0 /\ r.turn = 0
          /\ r.tier = policy.tiers[first] /\ r.distance = policy.base
      BY <1>5, <1>7 DEF Inputs!Planned, PlanSample
    <3> HIDE DEF r
    <3>2. plans' = <<r>>
      BY <1>2 DEF r
    <3> QED BY <3>1, <3>2
  <2>2. plans' \in Seq(PlanSample) /\ Len(plans') = 1 /\ DOMAIN plans' = {1} /\ plans'[1] = s
    BY <2>1
  <2>3. policy.tiers[first] \in Inputs!Range(policy.tiers)
    BY <1>7 DEF Inputs!Range, S
  <2>4. Within(s, Inputs!Sampling, args.dz)
    <3>1. s.distance = policy.base /\ s.tier \in Inputs!Range(policy.tiers) /\ s.z = 0
      BY <2>1, <2>3
    <3> QED BY <1>3, <1>5, <3>1, NearWithin
  <2>5. NearPlan'
    BY <1>5, <1>7, <2>1, <2>2 DEF NearPlan
  <2>6. Inputs!Sampling' = Inputs!Sampling
    BY <1>3 DEF Inputs!Sampling
  <2>7. \A i \in DOMAIN plans' : Within(plans'[i], Inputs!Sampling', args'.dz)
    BY <1>3, <2>2, <2>4, <2>6
  <2> QED BY <2>1, <2>2, <2>5, <2>7 DEF PlanOK
<1>12. Underway'
  <2>1. left' \in [DOMAIN policy'.tiers -> Nat]
    BY <1>3, <1>9 DEF S
  <2>2. Len(plans') + Inputs!Total(left') = policy'.steps
    <3>1. Len(plans') = 1 /\ policy'.steps = policy.steps
      BY <1>3, <1>11
    <3> QED BY <1>5, <1>9, <3>1
  <2>3. \A i \in DOMAIN plans', j \in Inputs!Waiting(left') : plans'[i].tier >= policy'.tiers[j]
    BY <1>3, <1>5, <1>7, <1>10, <1>11
  <2> QED BY <1>3, <1>11, <2>1, <2>2, <2>3 DEF Underway
<1>13. ASSUME step' = "manifest"
       PROVE  Finished'
  <2>1. Inputs!Waiting(left') = {}
    BY <1>3, <1>13
  <2>2. Inputs!Total(left') = 0
    BY <1>9, <2>1 DEF Counted
  <2> QED BY <1>3, <1>9, <1>11, <2>2 DEF Finished
<1> QED BY <1>3, <1>12, <1>13

\* longer is s and n more.
Extension(longer, s, n, more) ==
    /\ longer \in Seq(PlanSample) /\ Len(s) \in Nat /\ DOMAIN s = 1 .. Len(s)
    /\ Len(longer) = Len(s) + n /\ DOMAIN longer = 1 .. Len(s) + n
    /\ \A a \in DOMAIN longer :
         \/ a \in DOMAIN s /\ longer[a] = s[a]
         \/ a > Len(s) /\ \E k \in 1 .. n : longer[a] = more[k]

\* Joining sequences extends the first.
LEMMA JoinedSamples ==
    ASSUME NEW s \in Seq(PlanSample), NEW n \in Nat, NEW more \in [1 .. n -> PlanSample]
    PROVE  Extension(s \o more, s, n, more)
<1>1. more \in Seq(PlanSample) /\ Len(more) = n /\ Len(s) \in Nat /\ DOMAIN s = 1 .. Len(s)
  OBVIOUS
<1> DEFINE both == s \o more
<1>2. both \in Seq(PlanSample) /\ Len(both) = Len(s) + n /\ DOMAIN both = 1 .. Len(s) + n
  BY <1>1
<1>3. ASSUME NEW a \in 1 .. Len(s) + n
      PROVE  \/ a \in DOMAIN s /\ both[a] = s[a]
             \/ a > Len(s) /\ \E k \in 1 .. n : both[a] = more[k]
  <2>1. CASE a <= Len(s)
    BY <1>1, <1>3, <2>1
  <2>2. CASE ~(a <= Len(s))
    <3>1. a - Len(s) \in 1 .. n /\ both[a] = more[a - Len(s)] /\ a > Len(s)
      BY <1>1, <1>3, <2>2
    <3> QED BY <3>1
  <2> QED BY <2>1, <2>2
<1> HIDE DEF both
<1>4. Extension(both, s, n, more)
  BY <1>1, <1>2, <1>3 DEF Extension
<1> QED BY <1>4 DEF both

\* A plan that goes on with samples of one tier, not larger than those before.
LEMMA PlanExtended ==
    ASSUME PlanOK, policy.kind = "near-port", policy.base \in Int, NEW tier \in Int,
           tier \in Inputs!Range(policy.tiers),
           \A a \in DOMAIN plans : plans[a].tier >= tier,
           NEW n \in Nat, NEW more \in [1 .. n -> PlanSample],
           \A k \in 1 .. n : /\ more[k].tier = tier /\ more[k].distance = policy.base
                             /\ args.dz[1] <= args.dz[2] => more[k].z >= 0,
           plans' = plans \o more, policy' = policy, args' = args
    PROVE  PlanOK' /\ Len(plans') = Len(plans) + n /\ \A a \in DOMAIN plans' : plans'[a].tier >= tier
<1>1. plans \in Seq(PlanSample)
  BY DEF PlanOK
<1>2. Extension(plans', plans, n, more)
  BY <1>1, JoinedSamples
<1>3. /\ plans' \in Seq(PlanSample) /\ Len(plans') = Len(plans) + n /\ Len(plans) \in Nat
      /\ DOMAIN plans' = 1 .. Len(plans) + n /\ DOMAIN plans = 1 .. Len(plans)
  BY <1>2 DEF Extension
<1>4. \A a \in DOMAIN plans' :
        \/ a \in DOMAIN plans /\ plans'[a] = plans[a]
        \/ a > Len(plans) /\ \E k \in 1 .. n : plans'[a] = more[k]
  BY <1>2, Zenon DEF Extension
<1>5. \A k \in 1 .. n : Within(more[k], Inputs!Sampling, args.dz)
  <2> TAKE k \in 1 .. n
  <2> DEFINE s == more[k]
  <2>1. /\ s.distance = policy.base /\ s.tier \in Inputs!Range(policy.tiers)
        /\ args.dz[1] <= args.dz[2] => s.z >= 0
    OBVIOUS
  <2> HIDE DEF s
  <2>2. Within(s, Inputs!Sampling, args.dz)
    BY <2>1, NearWithin
  <2> QED BY <2>2 DEF s
<1>6. Inputs!Sampling' = Inputs!Sampling
  BY DEF Inputs!Sampling
<1>7. \A a \in DOMAIN plans : Within(plans[a], Inputs!Sampling, args.dz)
  BY DEF PlanOK
<1>8. \A a \in DOMAIN plans' : Within(plans'[a], Inputs!Sampling', args'.dz)
  BY <1>4, <1>5, <1>6, <1>7
<1>9. \A a \in DOMAIN plans' : plans'[a].tier >= tier /\ plans'[a].tier \in Int
  <2>1. \A a \in DOMAIN plans : plans[a].tier \in Int
    <3>1. \A a \in DOMAIN plans : plans[a] \in PlanSample
      BY <1>1
    <3> QED BY <3>1 DEF PlanSample
  <2> QED BY <1>4, <2>1
<1>10. NearPlan'
  <2>1. NearPlan
    BY DEF PlanOK
  <2>2. Len(plans') > 0 /\ 1 \in DOMAIN plans /\ plans'[1] = plans[1]
    BY <1>1, <1>3, <2>1 DEF NearPlan
  <2>3. ASSUME NEW a \in DOMAIN plans', NEW b \in DOMAIN plans', a <= b
        PROVE  plans'[a].tier >= plans'[b].tier
    <3>1. CASE b \in DOMAIN plans /\ plans'[b] = plans[b]
      <4>1. a \in DOMAIN plans /\ plans'[a] = plans[a]
        BY <1>1, <1>3, <1>4, <2>3, <3>1
      <4> QED BY <2>1, <2>3, <3>1, <4>1 DEF NearPlan
    <3>2. CASE b > Len(plans) /\ \E k \in 1 .. n : plans'[b] = more[k]
      <4>1. plans'[b].tier = tier
        BY <3>2
      <4> QED BY <1>9, <2>3, <4>1
    <3> QED BY <1>4, <2>3, <3>1, <3>2
  <2> QED BY <2>1, <2>2, <2>3 DEF NearPlan
<1> QED BY <1>3, <1>8, <1>9, <1>10 DEF PlanOK

\* What is cut is a number.
LEMMA CutIs ==
    ASSUME NEW m \in Nat, NEW v \in Int
    PROVE  Inputs!Clamp(-m, m, v) \in Int
<1>1. Inputs!Max({-m, v}) \in Int
  <2>1. -m \in Int
    OBVIOUS
  <2> QED BY <2>1, InputsMaxIs
<1>2. Inputs!Min({m, Inputs!Max({-m, v})}) \in Int
  <2> DEFINE w == Inputs!Max({-m, v})
  <2> HIDE DEF w
  <2>1. w \in Int
    BY <1>1 DEF w
  <2>2. Inputs!Min({m, w}) \in Int
    BY <2>1, InputsMinIs
  <2> QED BY <2>2 DEF w
<1> QED BY <1>2 DEF Inputs!Clamp

\* The samples of a tier that waits, the largest of them, in the ranges scaled to it.
TierPlan(i) ==
    LET tier == policy.tiers[i]
        n    == left[i]
        largest == Inputs!Max(Inputs!Range(policy.tiers))
        Scaled(range) == <<(range[1] * tier) \div largest, (range[2] * tier) \div largest>>
        Cut(t) == IF policy.turn_max > 0
                  THEN Inputs!Clamp(-policy.turn_max, policy.turn_max, t) ELSE t
    IN  \E x \in Inputs!AxisSamples(Scaled(policy.ranges.x), n),
           z \in Inputs!AxisSamples(Scaled(policy.ranges.z), n),
           t \in Inputs!AxisSamples(Scaled(policy.ranges.turn), n) :
          plans' = plans \o [k \in 1 .. n |->
                     Inputs!Planned(x[k], z[k], Cut(t[k]), tier, policy.base)]

\* The samples of a tier are of it, at the base, and not below the axis.
LEMMA TierPlanned ==
    ASSUME ConfigOK, NEW i \in DOMAIN policy.tiers, left[i] \in Nat, TierPlan(i)
    PROVE  \E more \in [1 .. left[i] -> PlanSample] :
             /\ plans' = plans \o more
             /\ \A k \in 1 .. left[i] :
                  /\ more[k].tier = policy.tiers[i] /\ more[k].distance = policy.base
                  /\ args.dz[1] <= args.dz[2] => more[k].z >= 0
<1> DEFINE tier == policy.tiers[i]
           n    == left[i]
           largest == Inputs!Max(Inputs!Range(policy.tiers))
           Scaled(range) == <<(range[1] * tier) \div largest, (range[2] * tier) \div largest>>
           Cut(t) == IF policy.turn_max > 0
                     THEN Inputs!Clamp(-policy.turn_max, policy.turn_max, t) ELSE t
           X == Scaled(policy.ranges.x)
           Z == Scaled(policy.ranges.z)
           R == Scaled(policy.ranges.turn)
<1>1. PICK x \in Inputs!AxisSamples(X, n), z \in Inputs!AxisSamples(Z, n),
           t \in Inputs!AxisSamples(R, n) :
        plans' = plans \o [k \in 1 .. n |->
                   Inputs!Planned(x[k], z[k], Cut(t[k]), tier, policy.base)]
  BY Zenon DEF TierPlan
<1>2. /\ Between(policy.ranges.x) /\ Between(policy.ranges.z) /\ Between(policy.ranges.turn)
      /\ args.dz[1] <= args.dz[2] => policy.ranges.z[1] >= 0
      /\ policy.turn_max \in Nat /\ policy.base \in Int
  BY DEF ConfigOK
<1>3. tier \in Positive
  BY DEF ConfigOK
<1>4. largest \in Positive
  BY LargestTier
<1> HIDE DEF tier, n, largest
<1>5. Between(X) /\ Between(R) /\ Between(Z) /\ (args.dz[1] <= args.dz[2] => Z[1] >= 0)
  BY <1>2, <1>3, <1>4, ScaledRange
<1> HIDE DEF X, Z, R
<1>6. n \in Nat
  BY DEF n
<1>7. x \in [1 .. n -> X[1] .. X[2]] /\ z \in [1 .. n -> Z[1] .. Z[2]] /\ t \in [1 .. n -> R[1] .. R[2]]
  BY <1>1, <1>5, <1>6, AxisValues
<1>8. X[1] \in Int /\ X[2] \in Int /\ Z[1] \in Int /\ Z[2] \in Int /\ R[1] \in Int /\ R[2] \in Int
  BY <1>5 DEF Between
<1>9. ASSUME NEW k \in 1 .. n
      PROVE  /\ x[k] \in Int /\ z[k] \in Int /\ Cut(t[k]) \in Int
             /\ args.dz[1] <= args.dz[2] => z[k] >= 0
  <2>1. x[k] \in X[1] .. X[2] /\ z[k] \in Z[1] .. Z[2] /\ t[k] \in R[1] .. R[2]
    BY <1>7, <1>9
  <2>2. x[k] \in Int /\ z[k] \in Int /\ z[k] >= Z[1] /\ t[k] \in Int
    BY <1>8, <2>1
  <2>3. Cut(t[k]) \in Int
    BY <1>2, <2>2, CutIs
  <2> QED BY <1>5, <1>8, <2>2, <2>3
<1> HIDE DEF Cut
<1> DEFINE more == [k \in 1 .. n |-> Inputs!Planned(x[k], z[k], Cut(t[k]), tier, policy.base)]
<1>10. ASSUME NEW k \in 1 .. n
       PROVE  /\ more[k] \in PlanSample /\ more[k].tier = tier /\ more[k].distance = policy.base
              /\ more[k].z = z[k]
  BY <1>2, <1>3, <1>9 DEF Inputs!Planned, PlanSample, Positive
<1>11. more \in [1 .. n -> PlanSample]
  BY <1>10
<1>12. plans' = plans \o more
  BY <1>1
<1> HIDE DEF more
<1> QED BY <1>9, <1>10, <1>11, <1>12 DEF n, tier

\* After the samples of a tier the plan lacks so many less, all of tiers not larger.
LEMMA TierSampled ==
    ASSUME ConfigOK, Underway, Inputs!SampleTier
    PROVE  Underway' /\ (step' = "manifest" => Finished') /\ step' \in {"sample", "manifest"}
<1>1. PICK i \in Inputs!Largest(left) : TierPlan(i) /\ left' = [left EXCEPT ![i] = 0]
  BY Zenon DEF Inputs!SampleTier, TierPlan
<1>2. /\ policy' = policy /\ args' = args
      /\ step' = IF Inputs!Waiting(left') = {} THEN "manifest" ELSE "sample"
  BY DEF Inputs!SampleTier
<1> DEFINE S == DOMAIN policy.tiers
           tier == policy.tiers[i]
<1>3. /\ policy.kind = "near-port" /\ PlanOK /\ left \in [S -> Nat]
      /\ Len(plans) + Inputs!Total(left) = policy.steps
      /\ \A a \in DOMAIN plans, j \in Inputs!Waiting(left) : plans[a].tier >= policy.tiers[j]
  BY DEF Underway
<1>4. IsFiniteSet(S) /\ (\A j \in S : policy.tiers[j] \in Int) /\ policy.base \in Int
  <2> DEFINE T == policy.tiers
  <2>1. T \in Seq(Positive) /\ policy.base \in Int
    BY DEF ConfigOK
  <2> HIDE DEF T
  <2>2. (\A j \in DOMAIN T : T[j] \in Int) /\ DOMAIN T = 1 .. Len(T) /\ Len(T) \in Nat
    BY <2>1 DEF Positive
  <2>3. IsFiniteSet(1 .. Len(T))
    BY <2>2, FS_Interval
  <2> QED BY <2>1, <2>2, <2>3 DEF T
<1> HIDE DEF S
<1>5. /\ i \in S /\ left[i] \in Nat /\ i \in Inputs!Waiting(left)
      /\ \A j \in Inputs!Waiting(left) : policy.tiers[j] <= tier
  BY <1>1, <1>3 DEF Inputs!Largest, Inputs!Waiting
<1>6. PICK more \in [1 .. left[i] -> PlanSample] :
        /\ plans' = plans \o more
        /\ \A k \in 1 .. left[i] :
             /\ more[k].tier = tier /\ more[k].distance = policy.base
             /\ args.dz[1] <= args.dz[2] => more[k].z >= 0
  BY <1>1, <1>5, TierPlanned DEF S
<1>7. tier \in Int /\ tier \in Inputs!Range(policy.tiers)
  BY <1>4, <1>5 DEF Inputs!Range, S
<1>8. /\ PlanOK' /\ Len(plans') = Len(plans) + left[i]
      /\ \A a \in DOMAIN plans' : plans'[a].tier >= tier
  <2>1. \A a \in DOMAIN plans : plans[a].tier >= tier
    BY <1>3, <1>5
  <2> HIDE DEF tier
  <2> QED BY <1>2, <1>3, <1>4, <1>5, <1>6, <1>7, <2>1, PlanExtended
<1>9. Fewer(S, left, left', left[i])
  <2>1. left[i] \in 0 .. left[i] /\ left[i] - left[i] = 0
    BY <1>5
  <2>2. left' = [left EXCEPT ![i] = left[i] - left[i]]
    BY <1>1, <2>1, Zenon
  <2> QED BY <1>3, <1>4, <1>5, <2>1, <2>2, TotalTaken
<1>10. /\ left' \in [S -> Nat] /\ Counted(S, left') /\ Inputs!Total(left') \in Nat
       /\ Inputs!Total(left') + left[i] = Inputs!Total(left)
  BY <1>9 DEF Fewer, Counted
<1>11. Len(plans') + Inputs!Total(left') = policy.steps
  <2>1. Len(plans) \in Nat
    BY <1>3 DEF PlanOK
  <2> QED BY <1>3, <1>5, <1>8, <1>10, <2>1
<1>12. \A a \in DOMAIN plans', j \in Inputs!Waiting(left') : plans'[a].tier >= policy.tiers[j]
  <2>1. ASSUME NEW a \in DOMAIN plans', NEW j \in Inputs!Waiting(left')
        PROVE  plans'[a].tier >= policy.tiers[j]
    <3>1. j \in S /\ left'[j] > 0
      BY <1>10 DEF Inputs!Waiting
    <3>2. j \in Inputs!Waiting(left)
      BY <1>1, <1>3, <3>1 DEF Inputs!Waiting
    <3>3. policy.tiers[j] <= tier /\ plans'[a].tier >= tier
      BY <1>5, <1>8, <3>2
    <3>4. plans'[a].tier \in Int
      <4>1. plans' \in Seq(PlanSample)
        BY <1>8 DEF PlanOK
      <4>2. plans'[a] \in PlanSample
        BY <4>1
      <4> QED BY <4>2 DEF PlanSample
    <3> QED BY <1>4, <1>7, <3>1, <3>3, <3>4
  <2> QED BY <2>1
<1>13. Underway'
  BY <1>2, <1>3, <1>8, <1>10, <1>11, <1>12 DEF Underway, S
<1>14. ASSUME step' = "manifest"
       PROVE  Finished'
  <2>1. Inputs!Total(left') = 0
    BY <1>2, <1>10, <1>14 DEF Counted
  <2>2. Len(plans') = policy.steps
    <3>1. Len(plans') \in Nat
      BY <1>8 DEF PlanOK
    <3> QED BY <1>11, <2>1, <3>1
  <2> QED BY <1>2, <1>3, <1>8, <2>2 DEF Finished
<1> QED BY <1>2, <1>13, <1>14

\* A descent goes down from the start to the base.
LEMMA DescentsAre ==
    ASSUME ConfigOK, NEW d \in Inputs!Descents(policy.steps)
    PROVE  /\ d \in [1 .. policy.steps -> policy.base .. policy.start]
           /\ d[1] = policy.start /\ (policy.steps > 1 => d[policy.steps] = policy.base)
           /\ \A i, j \in 1 .. policy.steps : i <= j => d[i] >= d[j]
<1> DEFINE n == policy.steps
           range == <<policy.base, policy.start>>
<1>1. /\ n \in Nat /\ n > 0 /\ policy.base \in Int /\ policy.start \in Int
      /\ policy.start >= policy.base
  BY DEF ConfigOK, Positive
<1>2. PICK down \in Inputs!AxisSamples(range, n) :
        /\ \A i, j \in 1 .. n : i <= j => down[i] >= down[j]
        /\ d = [i \in 1 .. n |-> IF i = 1 THEN policy.start
                                 ELSE IF i = n THEN policy.base ELSE down[i]]
  BY DEF Inputs!Descents
<1>3. Between(range) /\ range[1] = policy.base /\ range[2] = policy.start
  BY <1>1 DEF Between
<1> HIDE DEF n, range
<1>4. down \in [1 .. n -> policy.base .. policy.start]
  BY <1>1, <1>2, <1>3, AxisValues
<1>5. \A i \in 1 .. n : down[i] \in policy.base .. policy.start
  BY <1>4
<1>6. ASSUME NEW i \in 1 .. n
      PROVE  d[i] \in policy.base .. policy.start
  BY <1>1, <1>2, <1>5, <1>6
<1>7. d[1] = policy.start /\ (n > 1 => d[n] = policy.base)
  BY <1>1, <1>2
<1>8. ASSUME NEW i \in 1 .. n, NEW j \in 1 .. n, i <= j
      PROVE  d[i] >= d[j]
  <2>1. CASE i = 1
    BY <1>1, <1>2, <1>6, <1>8, <2>1
  <2>2. CASE j = n /\ i # 1
    <3>1. d[j] = policy.base
      BY <1>1, <1>2, <1>8, <2>2
    <3> QED BY <1>1, <1>6, <1>8, <3>1
  <2>3. CASE j # n /\ i # 1
    <3>1. d[i] = down[i] /\ d[j] = down[j]
      BY <1>1, <1>2, <1>8, <2>3
    <3> QED BY <1>2, <1>8, <3>1
  <2> QED BY <2>1, <2>2, <2>3
<1> QED BY <1>2, <1>6, <1>7, <1>8 DEF n

\* A view plan has a sample a step, in the ranges that are said of it.
LEMMA ViewsSampled ==
    ASSUME ConfigOK, Inputs!SampleViews
    PROVE  Finished' /\ step' = "manifest"
<1> DEFINE n == policy.steps
           D == IF policy.kind = "descent" THEN Inputs!Descents(n)
                ELSE Inputs!AxisSamples(policy.board, n)
           across == <<-policy.lateral, policy.lateral>>
           about == <<-policy.angle, policy.angle>>
           P(x, t, d) == [i \in 1 .. n |-> Inputs!Planned(x[i], 0, t[i], 0, d[i])]
<1>1. PICK d \in D : \E x \in Inputs!AxisSamples(across, n), t \in Inputs!AxisSamples(about, n) :
        plans' = P(x, t, d)
  BY DEF Inputs!SampleViews
<1>2. PICK x \in Inputs!AxisSamples(across, n), t \in Inputs!AxisSamples(about, n) :
        plans' = P(x, t, d)
  BY <1>1
<1>3. /\ policy.kind # "near-port" /\ policy' = policy /\ args' = args /\ step' = "manifest"
  BY DEF Inputs!SampleViews
<1>4. /\ n \in Nat /\ n > 0 /\ policy.kind \in {"near-port", "board-view", "descent"}
      /\ policy.base \in Int /\ policy.start \in Int /\ policy.start >= policy.base
      /\ policy.lateral \in Nat /\ policy.angle \in Nat /\ Between(policy.board)
  BY DEF ConfigOK, Positive
<1>5. Between(across) /\ Between(about) /\ across[1] = -policy.lateral /\ across[2] = policy.lateral
      /\ about[1] \in Int /\ about[2] \in Int
  BY <1>4 DEF Between
<1> DEFINE low == Inputs!Sampling.distances[1]
           high == Inputs!Sampling.distances[2]
<1>6. d \in [1 .. n -> low .. high] /\ low \in Int /\ high \in Int
  <2>1. CASE policy.kind = "descent"
    <3>1. low = policy.base /\ high = policy.start
      BY <2>1 DEF Inputs!Sampling
    <3>2. d \in Inputs!Descents(policy.steps)
      BY <2>1
    <3>3. d \in [1 .. n -> policy.base .. policy.start]
      BY <3>2, DescentsAre
    <3> QED BY <1>4, <3>1, <3>3
  <2>2. CASE policy.kind # "descent"
    <3>1. low = policy.board[1] /\ high = policy.board[2]
      BY <1>3, <1>4, <2>2 DEF Inputs!Sampling
    <3>2. d \in Inputs!AxisSamples(policy.board, n)
      BY <2>2
    <3> HIDE DEF n, low, high
    <3>3. d \in [1 .. n -> policy.board[1] .. policy.board[2]]
      BY <1>4, <3>2, AxisValues
    <3> QED BY <1>4, <3>1, <3>3 DEF Between
  <2> QED BY <2>1, <2>2
<1> HIDE DEF across, about, low, high, D
<1>7. x \in [1 .. n -> across[1] .. across[2]] /\ t \in [1 .. n -> about[1] .. about[2]]
  <2> HIDE DEF n
  <2> QED BY <1>4, <1>5, AxisValues
<1>8. Len(plans') = n /\ DOMAIN plans' = 1 .. n /\ plans' = P(x, t, d)
  BY <1>2, <1>4
<1> HIDE DEF n
<1>9. \A i \in 1 .. n : x[i] \in -policy.lateral .. policy.lateral /\ t[i] \in Int
                        /\ d[i] \in low .. high
  BY <1>5, <1>6, <1>7
<1>10. \A i \in 1 .. n :
         /\ plans'[i] \in PlanSample /\ plans'[i].z = 0 /\ plans'[i].tier = 0
         /\ plans'[i].x = x[i] /\ plans'[i].distance = d[i]
  BY <1>4, <1>6, <1>8, <1>9 DEF Inputs!Planned, PlanSample
<1>11. plans' \in Seq(PlanSample)
  BY <1>4, <1>8, <1>10
<1>12. Inputs!Sampling' = Inputs!Sampling
  BY <1>3 DEF Inputs!Sampling
<1>13. \A i \in 1 .. n : Within(plans'[i], Inputs!Sampling, args.dz)
  <2> DEFINE said == Inputs!Sampling
  <2>1. said.tiers = {0} /\ said.lateral = policy.lateral
    BY <1>3 DEF Inputs!Sampling
  <2>2. low = said.distances[1] /\ high = said.distances[2]
    BY DEF low, high
  <2> HIDE DEF said
  <2>3. \A i \in 1 .. n : Within(plans'[i], said, args.dz)
    BY <1>9, <1>10, <2>1, <2>2 DEF Within
  <2> QED BY <2>3 DEF said
<1>14. PlanOK'
  BY <1>3, <1>8, <1>11, <1>12, <1>13 DEF PlanOK
<1>15. ASSUME policy.kind = "descent"
       PROVE  DescentPlan'
  <2>1. d \in Inputs!Descents(policy.steps)
    BY <1>15 DEF D, n
  <2>2. /\ d[1] = policy.start /\ (n > 1 => d[n] = policy.base)
        /\ \A i, j \in 1 .. n : i <= j => d[i] >= d[j]
    BY <2>1, DescentsAre DEF n
  <2>3. plans'[1].distance = policy.start /\ (n > 1 => plans'[n].distance = policy.base)
    BY <1>4, <1>10, <2>2
  <2>4. \A i, j \in 1 .. n : i <= j => plans'[i].distance >= plans'[j].distance
    BY <1>10, <2>2
  <2> QED BY <1>3, <1>8, <2>3, <2>4 DEF DescentPlan, n
<1>16. Len(plans') = policy'.steps
  BY <1>3, <1>8 DEF n
<1> QED BY <1>3, <1>14, <1>15, <1>16 DEF Finished

\* What is not touched stays as it was.
LEMMA PlanKept ==
    ASSUME UNCHANGED <<args, policy, plans>>
    PROVE  /\ ConfigOK => ConfigOK'
           /\ Finished => Finished'
           /\ left' = left /\ Underway => Underway'
           /\ Inputs!Sampling' = Inputs!Sampling
<1>1. Inputs!Sampling' = Inputs!Sampling
  BY DEF Inputs!Sampling
<1>2. PlanOK => PlanOK'
  BY <1>1 DEF PlanOK, NearPlan
<1>3. DescentPlan => DescentPlan'
  BY DEF DescentPlan
<1>4. ConfigOK => ConfigOK'
  BY DEF ConfigOK
<1>5. Finished => Finished'
  BY <1>2, <1>3 DEF Finished
<1>6. left' = left /\ Underway => Underway'
  BY <1>2 DEF Underway
<1> QED BY <1>1, <1>4, <1>5, <1>6

\* The plan is safe at the start.
LEMMA PlanInitially == Inputs!Init => PlanInv
BY DEF Inputs!Init, PlanInv, Accepted, Ready, Declared, Looked

\* Each step keeps the plan safe.
LEMMA PlanStep == PlanInv /\ [Inputs!Next]_(Inputs!vars) => PlanInv'
<1> SUFFICES ASSUME PlanInv, [Inputs!Next]_(Inputs!vars) PROVE PlanInv'
  OBVIOUS
<1> USE DEF Accepted, Ready, Declared, Looked
<1>1. args \in ArgSets
  BY DEF PlanInv
<1>2. CASE UNCHANGED Inputs!vars
  <2>1. UNCHANGED <<args, step, policy, left, plans, manifest>>
    BY <1>2 DEF Inputs!vars
  <2>2. step \in Accepted => Inputs!Accepts(args')
    BY <2>1 DEF PlanInv
  <2> QED BY <1>1, <2>1, <2>2, PlanKept DEF PlanInv
<1>3. CASE Inputs!PrepareArgs
  <2>1. /\ step = "args" /\ UNCHANGED <<args, plans>>
        /\ step' = IF Inputs!Accepts(args) THEN "trial" ELSE "rejected"
    BY <1>3 DEF Inputs!PrepareArgs
  <2>2. plans' = Inputs!None
    BY <2>1 DEF PlanInv
  <2> QED BY <1>1, <2>1, <2>2 DEF PlanInv
<1>4. CASE Inputs!PrepareTrial \/ Inputs!SpawnBoard
  <2>1. step \in {"trial", "spawn"} /\ step' \in {"spawn", "policy"} /\ UNCHANGED <<args, plans>>
    BY <1>4 DEF Inputs!PrepareTrial, Inputs!SpawnBoard
  <2>2. Inputs!Accepts(args) /\ plans = Inputs!None
    BY <2>1 DEF PlanInv
  <2> QED BY <1>1, <2>1, <2>2 DEF PlanInv
<1>5. CASE Inputs!Construct
  <2>1. /\ step = "policy" /\ step' = "sample" /\ UNCHANGED <<args, plans>>
        /\ policy' = Inputs!Configured(args)
    BY <1>5 DEF Inputs!Construct
  <2>2. Inputs!Accepts(args) /\ plans = Inputs!None
    BY <2>1 DEF PlanInv
  <2>3. ConfigOK'
    BY <1>1, <2>1, <2>2, Configures
  <2> QED BY <1>1, <2>1, <2>2, <2>3 DEF PlanInv
<1>6. CASE Inputs!SampleViews \/ Inputs!SampleZero \/ Inputs!SampleTier
  <2>1. step = "sample" /\ UNCHANGED <<args, policy>>
    BY <1>6 DEF Inputs!SampleViews, Inputs!SampleZero, Inputs!SampleTier
  <2>2. Inputs!Accepts(args) /\ ConfigOK /\ (plans = Inputs!None \/ Underway)
    BY <2>1 DEF PlanInv
  <2>3. ConfigOK'
    BY <2>1, <2>2 DEF ConfigOK
  <2>4. \/ step' = "manifest" /\ Finished'
        \/ step' = "sample" /\ Underway'
    <3>1. CASE Inputs!SampleViews
      BY <2>2, <3>1, ViewsSampled
    <3>2. CASE Inputs!SampleZero
      BY <2>2, <3>2, ZeroSampled
    <3>3. CASE Inputs!SampleTier
      <4>1. Underway
        BY <2>2, <3>3 DEF Inputs!SampleTier
      <4> QED BY <2>2, <3>3, <4>1, TierSampled
    <3> QED BY <1>6, <3>1, <3>2, <3>3
  <2> QED BY <1>1, <2>1, <2>2, <2>3, <2>4 DEF PlanInv
<1>7. CASE Inputs!WriteManifest
  <2>1. /\ step = "manifest" /\ step' = "task" /\ UNCHANGED <<args, policy, plans>>
        /\ manifest'.data.sampling = Inputs!Sampling
    BY <1>7 DEF Inputs!WriteManifest
  <2>2. Inputs!Accepts(args) /\ ConfigOK /\ Finished
    BY <2>1 DEF PlanInv
  <2>3. ConfigOK' /\ Finished' /\ Inputs!Sampling' = Inputs!Sampling
    BY <2>1, <2>2, PlanKept
  <2> QED BY <1>1, <2>1, <2>2, <2>3 DEF PlanInv
<1>8. CASE \/ Inputs!Snapshot \/ Inputs!DepthImage \/ Inputs!Observe \/ Inputs!FindDepth
           \/ Inputs!DepthTimeout \/ Inputs!SaveSample
  <2>1. /\ step \in Declared /\ step' \in Declared /\ UNCHANGED <<args, policy, plans, manifest>>
    BY <1>8 DEF Inputs!Snapshot, Inputs!DepthImage, Inputs!Observe, Inputs!FindDepth,
                Inputs!DepthTimeout, Inputs!SaveSample
  <2>2. Inputs!Accepts(args) /\ ConfigOK /\ Finished /\ manifest.data.sampling = Inputs!Sampling
    BY <2>1 DEF PlanInv
  <2>3. ConfigOK' /\ Finished' /\ Inputs!Sampling' = Inputs!Sampling
    BY <2>1, <2>2, PlanKept
  <2> QED BY <1>1, <2>1, <2>2, <2>3 DEF PlanInv
<1>9. CASE Inputs!AutoVisibility
  <2>1. step' = "reviewed" /\ args' = args
    BY <1>9 DEF Inputs!AutoVisibility
  <2> QED BY <1>1, <2>1 DEF PlanInv
<1> QED BY <1>2, <1>3, <1>4, <1>5, <1>6, <1>7, <1>8, <1>9 DEF Inputs!Next

\* What is said of a plan is at least its base away.
LEMMA SaidDistances ==
    ASSUME ConfigOK
    PROVE  /\ Inputs!Sampling.distances[1] \in Int /\ Inputs!Sampling.distances[2] \in Int
           /\ Inputs!Sampling.distances[1] >= policy.base
           /\ Inputs!Sampling.clearance = policy.base /\ policy.base >= MinClearance
           /\ policy.base \in Int /\ MinClearance \in Int
           /\ Inputs!Sampling.collection_policy = policy.kind
           /\ policy.kind # "near-port" => Inputs!Sampling.lateral = policy.lateral
<1> DEFINE said == Inputs!Sampling
<1>1. /\ said.clearance = policy.base /\ said.collection_policy = policy.kind
      /\ policy.kind # "near-port" => said.lateral = policy.lateral
      /\ policy.kind = "board-view" => said.distances = policy.board
      /\ policy.kind # "board-view" =>
           said.distances = <<policy.base, IF policy.kind = "descent" THEN policy.start
                                           ELSE policy.base>>
  BY DEF Inputs!Sampling
<1>2. /\ policy.base \in Int /\ policy.base >= MinClearance /\ policy.start \in Int
      /\ Between(policy.board) /\ policy.board[1] >= policy.base
  BY DEF ConfigOK
<1>3. MinClearance \in Int
  BY ArgsTyped
<1> HIDE DEF said
<1>4. said.distances[1] \in Int /\ said.distances[2] \in Int /\ said.distances[1] >= policy.base
  <2>1. CASE policy.kind = "board-view"
    BY <1>1, <1>2, <2>1 DEF Between
  <2>2. CASE policy.kind # "board-view"
    BY <1>1, <1>2, <2>2
  <2> QED BY <2>1, <2>2
<1> QED BY <1>1, <1>2, <1>3, <1>4 DEF said

\* main.py:467-513, motion.py:134-238, dataset.py:1287-1343: a plan from any arguments that
\* are accepted with dz's bounds in order keeps the clearance, the order of its samples and
\* what data.yaml says of it.
THEOREM PlanIsSafeHolds == Inputs!Spec => []PlanIsSafe
<1>1. PlanInv => PlanIsSafe
  <2> SUFFICES ASSUME PlanInv, Inputs!Planning, args.dz[1] <= args.dz[2] PROVE PlanIsSafe
    BY DEF PlanIsSafe, Inputs!PlanIsSafe
  <2> DEFINE said == Inputs!Sampling
  <2>1. ConfigOK /\ Finished /\ manifest.data.sampling = said
    BY DEF PlanInv, Inputs!Planning, Accepted, Ready, Declared, Looked
  <2>2. PlanOK /\ Len(plans) = policy.steps /\ policy.steps = args.steps
    BY <2>1 DEF Finished, ConfigOK
  <2>3. /\ said.distances[1] \in Int /\ said.distances[2] \in Int
        /\ said.distances[1] >= policy.base /\ said.clearance = policy.base
        /\ policy.base >= MinClearance /\ policy.base \in Int /\ MinClearance \in Int
        /\ said.collection_policy = policy.kind
        /\ policy.kind # "near-port" => said.lateral = policy.lateral
    BY <2>1, SaidDistances
  <2> HIDE DEF said
  <2>4. plans \in Seq(PlanSample) /\ \A i \in DOMAIN plans : Within(plans[i], said, args.dz)
    BY <2>2 DEF PlanOK, said
  <2>5. ASSUME NEW i \in DOMAIN plans
        PROVE  /\ plans[i].distance + plans[i].z >= MinClearance
               /\ plans[i].distance + plans[i].z >= said.clearance
               /\ plans[i].distance \in said.distances[1] .. said.distances[2]
               /\ plans[i].tier \in said.tiers
               /\ policy.kind # "near-port" => plans[i].x \in -said.lateral .. said.lateral
    <3>1. plans[i] \in PlanSample
      BY <2>4, <2>5
    <3>2. plans[i].distance \in Int /\ plans[i].z \in Int
      BY <3>1 DEF PlanSample
    <3>3. /\ plans[i].z >= 0 /\ plans[i].distance \in said.distances[1] .. said.distances[2]
          /\ plans[i].tier \in said.tiers
          /\ policy.kind # "near-port" => plans[i].x \in -said.lateral .. said.lateral
      BY <2>3, <2>4, <2>5 DEF Within
    <3> QED BY <2>3, <3>2, <3>3
  <2>6. policy.kind = "near-port" => NearPlan
    BY <2>2 DEF PlanOK
  <2>7. policy.kind = "descent" =>
          DescentPlan /\ policy.start = args.start /\ policy.base = args.base
    BY <2>1 DEF Finished, ConfigOK
  <2> QED BY <2>1, <2>2, <2>5, <2>6, <2>7 DEF PlanIsSafe, Inputs!PlanIsSafe, NearPlan, DescentPlan
<1> QED BY <1>1, PlanInitially, PlanStep, PTL DEF Inputs!Spec

=============================================================================
