---------------------------- MODULE PageStoreProofs ----------------------------
(***************************************************************************)
(* What holds of PageStore for every library, every number of requests and *)
(* every order of their steps.                                             *)
(***************************************************************************)
EXTENDS PageStore, FiniteSetTheorems, SequenceTheorems,
        WellFoundedInduction, TLAPS

\* Where the handler of each kind may be.
PlacesOf(kind) ==
  {"done", "died"} \cup
  CASE kind = "create"     -> {"insert"}
    [] kind = "import"     -> {"charge", "body", "mkdir", "store", "insert", "cleanup", "answer"}
    [] kind = "upload"     -> {"gate", "charge", "body", "number", "mkdir", "store", "insert",
                               "cleanup", "answer"}
    [] kind = "deleteScan" -> {"gate", "charge", "delete", "unlink"}
    [] kind = "deleteSong" -> {"charge", "gate", "list", "delete", "unlink"}

Routed ==
  \A r \in Requests :
    \/ pc[r] = "idle" /\ req[r] = NoRow
    \/ req[r] \in Asked /\ pc[r] \in PlacesOf(req[r].kind)

\* Only a request that is done has been answered.
Unanswered == \A r \in Requests : pc[r] # "done" => answer[r] = ""

Uploading(r) == pc[r] # "idle" /\ req[r].kind \in Uploads

\* An upload past its await has the loop.
Alone ==
  \A r \in Requests :
    Uploading(r) /\ pc[r] \in {"number", "mkdir", "store", "insert", "cleanup", "answer"}
      => loop = r

\* A request that will create a song.
Pending(r) ==
  /\ pc[r] \in {"charge", "body", "mkdir", "store", "insert"}
  /\ req[r].kind \in {"create", "import"}

\* Its song is not there yet, and nobody else has come far with it.
FreshSongs ==
  \A q \in Requests : Pending(q) =>
    /\ req[q].song \notin live
    /\ \A s \in Requests \ {q} : pc[s] # "idle" /\ req[s].song = req[q].song =>
         /\ s \notin files
         /\ req[s].kind \notin {"create", "import"}
         /\ req[s].kind = "upload" => pc[s] \in {"gate", "done", "died"}

\* A file of this run is one of an upload past its write.
Filed ==
  \A s \in Requests \cap files :
    Uploading(s) /\ pc[s] \in {"insert", "cleanup", "answer", "done", "died"}

Stored == \A r \in Requests : pc[r] = "insert" /\ Uploading(r) => r \in files

Over(s) == s \in Requests => pc[s] \in {"answer", "done", "died"}

\* A row of this run is one of an upload past its insert.
Inserted ==
  \A s \in Scans :
    row[s] # NoRow => Over(s) /\ (s \in Requests => row[s].song = req[s].song)

\* What a delete has to unlink is past its insert,
Doomed ==
  \A r \in Requests : \A s \in doomed[r] :
    pc[r] \in {"delete", "unlink", "done", "died"} /\ Over(s)

\* is of the song to be deleted,
Chosen ==
  \A r \in Requests : pc[r] = "delete" =>
    \A s \in doomed[r] :
      /\ req[r].kind = "deleteSong"
      /\ row[s] # NoRow => row[s].song = req[r].song

\* and has no row any more.
Rowless == \A r \in Requests : pc[r] = "unlink" => \A s \in doomed[r] : row[s] = NoRow

\* A page that is to be deleted was there.
Known ==
  \A r \in Requests :
    pc[r] # "idle" /\ req[r].kind = "deleteScan" => Over(req[r].scan)

\* The pages not on the list of a song's delete came after it.
Covered ==
  \A r \in Requests :
    pc[r] = "delete" /\ req[r].kind = "deleteSong" =>
      \A s \in PagesOf(req[r].song) : s \in doomed[r] \/ s \in Requests

\* The number an upload carries is above every number of its song.
Above ==
  \A r \in Requests :
    pc[r] \in {"mkdir", "store", "insert"} /\ req[r].kind = "upload" =>
      \A s \in PagesOf(req[r].song) : row[s].no < number[r]

Positive ==
  \A r \in Requests :
    pc[r] \in {"mkdir", "store", "insert"} /\ req[r].kind = "upload" => number[r] # 0

Inv ==
  /\ TypeOK /\ Routed /\ Unanswered /\ Alone
  /\ FreshSongs /\ Filed /\ Stored /\ Inserted
  /\ Doomed /\ Chosen /\ Rowless /\ Known /\ Covered /\ Above /\ Positive
  /\ RowHasOriginal /\ PagesDistinct /\ OrphanHasCause


-----------------------------------------------------------------------------
(* The largest of a finite set, and pages renumbered.                      *)

LEMMA LeastExists ==
  ASSUME NEW T, T \subseteq Nat, T # {}
  PROVE  \E x \in T : \A y \in T : x <= y
<1> DEFINE R == {ss \in Nat \X Nat : ss[1] < ss[2]}
<1>1. IsWellFoundedOn(R, Nat)
  BY NatLessThanWellFounded DEF OpToRel
<1> HIDE DEF R
<1>2. PICK x \in T : \A y \in T : ~ (<<y, x>> \in R)
  BY <1>1, WFMin, Zenon
<1>3. \A y \in T : x <= y
  <2> SUFFICES ASSUME NEW y \in T PROVE x <= y
    OBVIOUS
  <2>1. x \in Nat /\ y \in Nat /\ ~ (y < x)
    BY <1>2 DEF R
  <2> QED
    BY <2>1
<1> QED
  BY <1>3

\* A finite set of numbers has a largest, for one without would be no larger
\* than it is without one of its members.
LEMMA LargestExists ==
  ASSUME NEW S, S \subseteq Nat, S # {}, IsFiniteSet(S)
  PROVE  \E x \in S : \A y \in S : x >= y
<1> DEFINE Bad(U) == U # {} /\ IsFiniteSet(U) /\ \A x \in U : \E y \in U : ~ (x >= y)
           sizes == {n \in Nat : \E U \in SUBSET Nat : Bad(U) /\ Cardinality(U) = n}
<1> SUFFICES ASSUME sizes # {} PROVE FALSE
  BY FS_CardinalityType
<1>1. PICK n \in sizes : \A m \in sizes : n <= m
  BY LeastExists
<1>2. PICK U \in SUBSET Nat : Bad(U) /\ Cardinality(U) = n
  BY <1>1
<1>3. PICK e \in U : TRUE
  BY <1>2
<1> DEFINE V == U \ {e}
<1>4. IsFiniteSet(V) /\ Cardinality(V) = n - 1 /\ V \in SUBSET Nat
  BY <1>2, <1>3, FS_RemoveElement
<1>5. V # {}
  BY <1>2, <1>3
<1>6. n - 1 \in Nat /\ ~ (n <= n - 1)
  BY <1>4, FS_CardinalityType, <1>1
<1>7. PICK m \in V : \A y \in V : m >= y
  BY <1>1, <1>4, <1>5, <1>6
<1>8. \E x \in {m, e} : \A y \in U : x >= y
  BY <1>7, <1>2, <1>3, <1>4
<1> QED
  BY <1>2, <1>3, <1>7, <1>8

LEMMA PagesFinite ==
  ASSUME TypeOK, NEW g
  PROVE  /\ IsFiniteSet(Numbers(g)) /\ Numbers(g) \subseteq Nat
         /\ \A s \in PagesOf(g) : row[s] \in Page /\ row[s].no \in Nat /\ row[s].no >= 1
<1>1. \A s \in PagesOf(g) : row[s] \in Page
  BY DEF PagesOf, TypeOK
<1>2. \A s \in PagesOf(g) : row[s].no \in Nat /\ row[s].no >= 1
  BY <1>1 DEF Page
<1>3. PagesOf(g) \in SUBSET Scans
  BY DEF PagesOf
<1>4. IsFiniteSet(PagesOf(g))
  BY <1>3, ScansAssumption, FS_Subset
<1> DEFINE f == [s \in PagesOf(g) |-> row[s].no]
<1>5. f \in Surjection(PagesOf(g), Numbers(g))
  BY DEF Surjection, Numbers
<1>6. IsFiniteSet(Numbers(g))
  BY <1>4, <1>5, FS_Surjection
<1> QED
  BY <1>1, <1>2, <1>6 DEF Numbers

\* MAX(page_no), 0 for a song without pages, is a number above which none is.
LEMMA MaxNumber ==
  ASSUME TypeOK, NEW g
  PROVE  LET top == Max(Numbers(g) \cup {0})
         IN top \in Nat /\ \A s \in PagesOf(g) : row[s].no <= top
<1> DEFINE S == Numbers(g) \cup {0}
<1>1. IsFiniteSet(S) /\ S \subseteq Nat /\ S # {}
  BY PagesFinite, FS_AddElement
<1>2. \E x \in S : \A y \in S : x >= y
  BY <1>1, LargestExists
<1>3. Max(S) \in S /\ \A y \in S : Max(S) >= y
  BY <1>2 DEF Max
<1>4. \A s \in PagesOf(g) : row[s].no \in S
  BY DEF Numbers
<1> QED
  BY <1>1, <1>3, <1>4

\* The pages of a song up to one of them.
UpTo(g, gone, s) == {t \in PagesOf(g) \ {gone} : row[t].no <= row[s].no}

LEMMA UpToBounds ==
  ASSUME TypeOK, PagesDistinct, NEW g, NEW gone, NEW s \in PagesOf(g) \ {gone}
  PROVE  /\ IsFiniteSet(UpTo(g, gone, s))
         /\ Cardinality(UpTo(g, gone, s)) \in Nat \ {0}
         /\ Cardinality(UpTo(g, gone, s)) <= row[s].no
<1> DEFINE U == UpTo(g, gone, s)
<1>1. U \in SUBSET Scans
  BY DEF UpTo, PagesOf
<1>2. IsFiniteSet(U)
  BY <1>1, ScansAssumption, FS_Subset
<1>3. s \in U /\ row[s].no \in Nat
  BY PagesFinite DEF UpTo
<1>4. Cardinality(U) \in Nat \ {0}
  BY <1>2, <1>3, FS_CardinalityType, FS_EmptySet
<1> DEFINE f == [t \in U |-> row[t].no]
           T == 1 .. row[s].no
<1>5. f \in [U -> T]
  BY <1>3, PagesFinite DEF UpTo
<1>6. \A t, u \in U : f[t] = f[u] => t = u
  <2> SUFFICES ASSUME NEW t \in U, NEW u \in U, row[t].no = row[u].no PROVE t = u
    OBVIOUS
  <2>1. row[t] \in Page /\ row[u] \in Page /\ row[t].song = g /\ row[u].song = g
    BY PagesFinite DEF UpTo, PagesOf
  <2>2. row[t] = row[u]
    BY <2>1 DEF Page
  <2>3. t \in Scans /\ u \in Scans /\ row[t] # NoRow
    BY DEF UpTo, PagesOf
  <2> QED
    BY <2>2, <2>3 DEF PagesDistinct
<1>7. f \in Injection(U, T)
  BY <1>5, <1>6 DEF Injection, IsInjective
<1>8. IsFiniteSet(T) /\ Cardinality(T) = row[s].no
  <2>1. \A n \in Int : IsFiniteSet(1 .. n) /\ Cardinality(1 .. n) = IF 1 > n THEN 0 ELSE n - 1 + 1
    BY FS_Interval
  <2>2. row[s].no \in Int /\ row[s].no >= 1
    BY PagesFinite
  <2> QED
    BY <2>1, <2>2
<1>9. Cardinality(U) <= Cardinality(T)
  BY <1>7, <1>8, FS_Injection
<1> QED
  BY <1>2, <1>4, <1>8, <1>9

\* Renumbering keeps the pages but one, their songs, their types, that no two
\* have one number, and that none has a higher one than before.
LEMMA RenumberedPages ==
  ASSUME TypeOK, PagesDistinct, NEW g \in Songs, NEW gone \in Scans
  PROVE  LET new == Renumbered(g, gone)
         IN /\ new \in [Scans -> Page \cup {NoRow}]
            /\ new[gone] = NoRow
            /\ \A s \in Scans \ {gone} :
                 IF row[s] = NoRow THEN new[s] = NoRow
                 ELSE /\ new[s] # NoRow
                      /\ new[s].song = row[s].song
                      /\ new[s].no <= row[s].no
            /\ \A s, t \in Scans : new[s] # NoRow /\ new[s] = new[t] => s = t
<1> DEFINE new == Renumbered(g, gone)
           keep == PagesOf(g) \ {gone}
           size(s) == Cardinality(UpTo(g, gone, s))
<1>1. /\ new = [s \in Scans |-> IF s = gone THEN NoRow
                                ELSE IF s \in keep THEN [song |-> g, no |-> size(s)] ELSE row[s]]
  BY DEF Renumbered, UpTo
<1>2. \A s \in keep : /\ size(s) \in Nat \ {0} /\ size(s) <= row[s].no
                      /\ s \in Scans /\ row[s] # NoRow /\ row[s].song = g
  BY UpToBounds DEF PagesOf
<1>3. \A s \in keep : [song |-> g, no |-> size(s)] \in Page
  BY <1>2 DEF Page
<1>4. \A s, t \in keep : size(s) = size(t) => s = t
  <2> SUFFICES ASSUME NEW s \in keep, NEW t \in keep, size(s) = size(t) PROVE s = t
    OBVIOUS
  <2>1. /\ row[s] \in Page /\ row[t] \in Page
        /\ row[s].no \in Nat /\ row[t].no \in Nat
    BY PagesFinite
  <2> DEFINE A == UpTo(g, gone, s)
             B == UpTo(g, gone, t)
  <2>2. IsFiniteSet(A) /\ IsFiniteSet(B)
    BY UpToBounds
  <2>3. A = B
    <3>0. \A u \in keep : row[u].no \in Nat
      BY PagesFinite
    <3>1. CASE row[s].no <= row[t].no
      <4>1. A \in SUBSET B
        BY <3>0, <3>1, <2>1 DEF UpTo
      <4> QED
        BY <4>1, <2>2, FS_Subset
    <3>2. CASE row[t].no <= row[s].no
      <4>1. B \in SUBSET A
        BY <3>0, <3>2, <2>1 DEF UpTo
      <4> QED
        BY <4>1, <2>2, FS_Subset
    <3> QED
      BY <3>1, <3>2, <2>1
  <2>4. s \in B /\ t \in A
    BY <2>3, <2>1 DEF UpTo
  <2>5. row[s].no = row[t].no
    BY <2>4, <2>1 DEF UpTo
  <2>6. row[s] = row[t]
    BY <2>1, <2>5, <1>2 DEF Page
  <2> QED
    BY <2>6, <1>2 DEF PagesDistinct
<1> HIDE DEF size
<1>5. new \in [Scans -> Page \cup {NoRow}]
  BY <1>1, <1>3 DEF TypeOK
<1>6. new[gone] = NoRow
  BY <1>1
<1>7. ASSUME NEW s \in Scans \ {gone}
      PROVE  IF row[s] = NoRow THEN new[s] = NoRow
             ELSE new[s] # NoRow /\ new[s].song = row[s].song /\ new[s].no <= row[s].no
  <2>1. CASE s \in keep
    <3>1. new[s] = [song |-> g, no |-> size(s)]
      BY <1>1, <2>1
    <3>2. new[s] # NoRow
      BY <3>1, <1>3, <2>1, NoRowAssumption
    <3> QED
      BY <3>1, <3>2, <2>1, <1>2
  <2>2. CASE s \notin keep
    <3>1. new[s] = row[s]
      BY <1>1, <2>2
    <3>2. row[s] # NoRow => row[s] \in Page
      BY DEF TypeOK
    <3> QED
      BY <3>1, <3>2 DEF Page
  <2> QED
    BY <2>1, <2>2
<1>8. ASSUME NEW s \in Scans, NEW t \in Scans, new[s] # NoRow, new[s] = new[t]
      PROVE  s = t
  <2>1. s # gone /\ t # gone
    BY <1>1, <1>8
  <2>2. CASE s \in keep /\ t \in keep
    <3>1. size(s) = size(t)
      <4>1. new[s].no = size(s) /\ new[t].no = size(t)
        BY <1>1, <2>2, <2>1
      <4> QED
        BY <4>1, <1>8
    <3> QED
      BY <3>1, <1>4, <2>2
  <2>3. CASE s \notin keep /\ t \notin keep
    BY <2>3, <2>1, <1>1, <1>8 DEF PagesDistinct
  <2>4. ASSUME NEW a \in keep, NEW b \in Scans \ keep, new[a] = new[b], b # gone PROVE FALSE
    <3>1. new[a].song = g /\ new[b] = row[b]
      BY <1>1, <2>4, <1>2
    <3>2. row[b] # NoRow
      BY <2>4, <3>1, <1>1, <1>3, NoRowAssumption, <1>2
    <3> QED
      BY <3>1, <3>2, <2>4 DEF PagesOf
  <2> QED
    BY <2>1, <2>2, <2>3, <2>4, <1>8
<1> QED
  BY <1>5, <1>6, <1>7, <1>8

-----------------------------------------------------------------------------
(* Steps that leave the files and the rows as they are.                    *)

\* A handler goes on to a place of its kind.
LEMMA RoutedKept ==
  ASSUME TypeOK, Routed, NEW r \in Requests, NEW p, pc' = [pc EXCEPT ![r] = p],
         req' = req, req[r] \in Asked, p \in PlacesOf(req[r].kind)
  PROVE  Routed'
<1>1. pc'[r] = p /\ \A q \in Requests : q # r => pc'[q] = pc[q]
  BY DEF TypeOK
<1> QED
  BY <1>1 DEF Routed

LEMMA OrphansKept ==
  ASSUME Inv, NEW r \in Requests, NEW p, pc' = [pc EXCEPT ![r] = p],
         UNCHANGED <<files, row, req, doomed>>, pc[r] # "done",
         answer' = answer \/ \E a : answer' = [answer EXCEPT ![r] = a],
         r \in files /\ pc[r] \in {"insert", "cleanup"} => p \in {"insert", "cleanup"},
         \A s \in Requests \cap files : req[s].song \in live' => req[s].song \in live,
         pc[r] # "died"
  PROVE  OrphanHasCause'
<1> SUFFICES ASSUME NEW s \in files', row'[s] = NoRow
             PROVE  \/ \E q \in Requests : s \in doomed'[q]
                    \/ /\ s \in Requests
                       /\ \/ pc'[s] \in {"insert", "cleanup", "died"}
                          \/ answer'[s] = "diskFull"
                          \/ req'[s].song \notin live'
  BY DEF OrphanHasCause
<1>1. \/ \E q \in Requests : s \in doomed[q]
      \/ /\ s \in Requests
         /\ \/ pc[s] \in {"insert", "cleanup", "died"}
            \/ answer[s] = "diskFull"
            \/ req[s].song \notin live
  BY DEF Inv, OrphanHasCause
<1>2. CASE \E q \in Requests : s \in doomed[q]
  BY <1>2
<1>3. CASE s \in Requests /\ s # r
  BY <1>1, <1>3 DEF Inv, TypeOK
<1>4. CASE s = r
  <2>1. answer[r] # "diskFull"
    BY DEF Inv, Unanswered
  <2> QED
    BY <1>1, <1>4, <2>1 DEF Inv, TypeOK
<1> QED
  BY <1>1, <1>2, <1>3, <1>4

LEMMA FreshKept ==
  ASSUME Inv, NEW r \in Requests, NEW p, pc' = [pc EXCEPT ![r] = p],
         UNCHANGED <<live, req>>, pc[r] # "idle",
         p \in {"charge", "body", "mkdir", "store", "insert"}
           => pc[r] \in {"charge", "body", "mkdir", "store", "insert"} \/ req[r].kind = "upload"
              \/ req[r].kind \in {"deleteScan", "deleteSong"},
         files' \subseteq files \/ (files' = files \cup {r} /\ pc[r] = "store"),
         req[r].kind = "upload" /\ pc[r] \in {"gate", "done", "died"}
           => p \in {"gate", "done", "died"} \/ req[r].song \in live
  PROVE  FreshSongs'
<1> SUFFICES ASSUME NEW q \in Requests, Pending(q)'
             PROVE  /\ req'[q].song \notin live'
                    /\ \A s \in Requests \ {q} : pc'[s] # "idle" /\ req'[s].song = req'[q].song =>
                         /\ s \notin files'
                         /\ req'[s].kind \notin {"create", "import"}
                         /\ req'[s].kind = "upload" => pc'[s] \in {"gate", "done", "died"}
  BY DEF FreshSongs
<1>1. Pending(q)
  BY DEF Pending, Inv, TypeOK
<1>2. req[q].song \notin live
  BY <1>1 DEF Inv, FreshSongs
<1>3. ASSUME NEW s \in Requests \ {q}, pc'[s] # "idle", req[s].song = req[q].song
      PROVE  /\ s \notin files'
             /\ req[s].kind \notin {"create", "import"}
             /\ req[s].kind = "upload" => pc'[s] \in {"gate", "done", "died"}
  <2>1. pc[s] # "idle"
    BY <1>3 DEF Inv, TypeOK
  <2>2. /\ s \notin files
        /\ req[s].kind \notin {"create", "import"}
        /\ req[s].kind = "upload" => pc[s] \in {"gate", "done", "died"}
    BY <1>1, <1>3, <2>1 DEF Inv, FreshSongs
  <2>3. CASE s # r
    BY <2>2, <2>3 DEF Inv, TypeOK
  <2>4. CASE s = r
    <3>1. req[r].kind = "upload" => p \in {"gate", "done", "died"}
      BY <2>2, <2>4, <1>2, <1>3
    <3>2. pc[r] = "store" => req[r].kind \in {"import", "upload"}
      BY DEF Inv, Routed, PlacesOf, Asked, Kinds
    <3> QED
      BY <2>2, <2>4, <3>1, <3>2 DEF Inv, TypeOK
  <2> QED
    BY <2>3, <2>4
<1> QED
  BY <1>2, <1>3

\* The number of an upload is positive when it is used.
LEMMA NumberPositive ==
  ASSUME Inv, NEW r \in Requests, pc[r] = "insert", req[r].kind = "upload"
  PROVE  number[r] \in Nat \ {0}
BY DEF Inv, Positive, TypeOK

LEMMA Incremented ==
  ASSUME NEW S, NEW f \in [S -> Nat], NEW s \in S, NEW n \in Nat
  PROVE  LET new == [f EXCEPT ![s] = n + 1]
         IN new \in [S -> Nat] /\ new[s] # 0
OBVIOUS

-----------------------------------------------------------------------------
(* Every action keeps the invariant.                                       *)

\* The gate reads only.
LEMMA GateKeeps ==
  ASSUME Inv, NEW r \in Requests, Gate(r)
  PROVE  Inv'
<1> USE DEF Inv, Goto, Reply, At, db, disk, OnLoop
<1>0. TypeOK'
  BY DEF Gate, TypeOK
<1>1. Routed'
  <2>1. req[r] \in Asked /\ req[r].kind \in {"upload", "deleteScan", "deleteSong"}
    BY DEF Gate, Routed, Asked, Kinds, PlacesOf
  <2>2. \E p \in {IF req[r].kind = "deleteSong" THEN "list" ELSE "charge", "done"} :
          pc' = [pc EXCEPT ![r] = p]
    BY DEF Gate
  <2>3. req' = req
    BY DEF Gate
  <2> QED
    BY <2>1, <2>2, <2>3, RoutedKept DEF PlacesOf
<1>2. Unanswered'
  BY DEF Gate, TypeOK, Unanswered
<1>3. Alone'
  BY DEF Gate, TypeOK, Alone, Uploading
<1>4. FreshSongs'
  <2>1. PICK p \in {"list", "charge", "done"} : pc' = [pc EXCEPT ![r] = p] /\ UNCHANGED <<live, req, files>>
          /\ (p = "charge" /\ req[r].kind = "upload" => req[r].song \in live)
          /\ (p = "list" => req[r].kind = "deleteSong")
    BY DEF Gate
  <2>2. pc[r] = "gate" /\ req[r].kind \in {"upload", "deleteScan", "deleteSong"}
    BY DEF Gate, Routed, PlacesOf, Asked, Kinds
  <2> QED
    BY <2>1, <2>2, FreshKept
<1>5. Filed'
  BY DEF Gate, TypeOK, Filed, Uploading
<1>6. Stored'
  BY DEF Gate, TypeOK, Stored, Uploading
<1>7. Inserted'
  BY DEF Gate, TypeOK, Inserted, Over
<1>8. Doomed'
  BY DEF Gate, TypeOK, Doomed, Over
<1>9. Chosen'
  BY DEF Gate, TypeOK, Chosen
<1>10. Rowless'
  BY DEF Gate, TypeOK, Rowless
<1>11. Known'
  BY DEF Gate, TypeOK, Known, Over
<1>12. Covered'
  BY DEF Gate, TypeOK, Covered, PagesOf
<1>13. Above'
  BY DEF Gate, TypeOK, Above, PagesOf
<1>14. Positive'
  BY DEF Gate, TypeOK, Positive
<1>15. RowHasOriginal'
  BY DEF Gate, RowHasOriginal
<1>16. PagesDistinct'
  BY DEF Gate, PagesDistinct
<1>17. OrphanHasCause'
  BY DEF Gate, TypeOK, OrphanHasCause, Filed
<1> QED
  BY <1>0, <1>1, <1>2, <1>3, <1>4, <1>5, <1>6, <1>7, <1>8, <1>9, <1>10, <1>11, <1>12, <1>13, <1>14, <1>15, <1>16, <1>17

\* A charge is another module's.
LEMMA ChargeKeeps ==
  ASSUME Inv, NEW r \in Requests, Charge(r)
  PROVE  Inv'
<1> USE DEF Inv, Goto, Reply, At, db, disk, OnLoop
<1>0. TypeOK'
  <2>1. PICK p \in {"body", "gate", "delete", "done"} : pc' = [pc EXCEPT ![r] = p]
    BY DEF Charge, Routed, PlacesOf, Asked, Kinds, Uploads
  <2>2. answer' = answer \/ \E a \in {"limited"} : answer' = [answer EXCEPT ![r] = a]
    BY DEF Charge
  <2>3. loop' \in {loop, Nobody} /\ UNCHANGED <<live, row, files, dirs, req, number, doomed>>
    BY DEF Charge
  <2> QED
    BY <2>1, <2>2, <2>3 DEF TypeOK
<1>1. Routed'
  <2>1. req[r] \in Asked /\ req[r].kind \in {"import", "upload", "deleteScan", "deleteSong"}
    BY DEF Charge, Routed, PlacesOf, Asked, Kinds
  <2> DEFINE p == CASE req[r].kind \in Uploads -> "body"
                    [] req[r].kind = "deleteSong" -> "gate"
                    [] req[r].kind = "deleteScan" -> "delete"
  <2>2. p \in PlacesOf(req[r].kind)
    BY <2>1 DEF Uploads, PlacesOf
  <2>3. "done" \in PlacesOf(req[r].kind)
    BY DEF PlacesOf
  <2>4. pc' = [pc EXCEPT ![r] = p] \/ pc' = [pc EXCEPT ![r] = "done"]
    BY DEF Charge
  <2>5. req' = req
    BY DEF Charge
  <2> HIDE DEF p
  <2> QED
    BY <2>1, <2>2, <2>3, <2>4, <2>5 DEF Routed, TypeOK
<1>2. Unanswered'
  BY DEF Charge, TypeOK, Unanswered
<1>3. Alone'
  BY DEF Charge, TypeOK, Alone, Uploading
<1>4. FreshSongs'
  <2>1. PICK p : pc' = [pc EXCEPT ![r] = p] /\ UNCHANGED <<live, req, files>>
    BY DEF Charge
  <2>2. pc[r] = "charge"
    BY DEF Charge
  <2> QED
    BY <2>1, <2>2, FreshKept
<1>5. Filed'
  BY DEF Charge, TypeOK, Filed, Uploading
<1>6. Stored'
  BY DEF Charge, TypeOK, Stored, Uploading
<1>7. Inserted'
  BY DEF Charge, TypeOK, Inserted, Over
<1>8. Doomed'
  BY DEF Charge, TypeOK, Doomed, Over
<1>9. Chosen'
  BY DEF Charge, TypeOK, Chosen, Doomed
<1>10. Rowless'
  BY DEF Charge, TypeOK, Rowless, Doomed
<1>11. Known'
  BY DEF Charge, TypeOK, Known, Over
<1>12. Covered'
  BY DEF Charge, TypeOK, Covered, PagesOf
<1>13. Above'
  BY DEF Charge, TypeOK, Above, PagesOf, Uploads
<1>14. Positive'
  <2>1. PICK p \in {"body", "gate", "delete", "done"} : pc' = [pc EXCEPT ![r] = p]
    BY DEF Charge, Routed, PlacesOf, Asked, Kinds, Uploads
  <2>2. UNCHANGED <<req, number>>
    BY DEF Charge
  <2> QED
    BY <2>1, <2>2 DEF Positive, TypeOK
<1>15. RowHasOriginal'
  BY DEF Charge, RowHasOriginal
<1>16. PagesDistinct'
  BY DEF Charge, PagesDistinct
<1>17. OrphanHasCause'
  BY DEF Charge, TypeOK, OrphanHasCause, Filed
<1> QED
  BY <1>0, <1>1, <1>2, <1>3, <1>4, <1>5, <1>6, <1>7, <1>8, <1>9, <1>10, <1>11, <1>12, <1>13, <1>14, <1>15, <1>16, <1>17

\* The await: the handler takes the loop.
LEMMA BodyKeeps ==
  ASSUME Inv, NEW r \in Requests, Body(r)
  PROVE  Inv'
<1> USE DEF Inv, Goto, Reply, At, db, disk, OnLoop
<1>0. TypeOK'
  BY DEF Body, TypeOK
<1>1. Routed'
  <2>1. req[r] \in Asked /\ req[r].kind \in Uploads
    BY DEF Body, Routed, Asked, Kinds, Uploads, PlacesOf
  <2>2. \E p \in {IF req[r].kind = "upload" THEN "number" ELSE "mkdir", "done"} :
          pc' = [pc EXCEPT ![r] = p]
    BY DEF Body
  <2>3. req' = req
    BY DEF Body
  <2> QED
    BY <2>1, <2>2, <2>3, RoutedKept DEF PlacesOf, Uploads
<1>2. Unanswered'
  BY DEF Body, TypeOK, Unanswered
<1>3. Alone'
  <2>1. loop = Nobody /\ r # Nobody /\ (loop' = r \/ loop' = loop)
    BY NobodyAssumption DEF Body
  <2>2. \A q \in Requests :
          Uploading(q) => pc[q] \notin {"number", "mkdir", "store", "insert", "cleanup", "answer"}
    BY <2>1, NobodyAssumption DEF Alone
  <2>3. /\ \A q \in Requests : q # r => pc'[q] = pc[q]
        /\ pc'[r] = "done" \/ loop' = r
        /\ req' = req
    BY <2>1 DEF Body, TypeOK
  <2> QED
    BY <2>2, <2>3 DEF Alone, Uploading
<1>4. FreshSongs'
  <2>1. PICK p : pc' = [pc EXCEPT ![r] = p] /\ UNCHANGED <<live, req, files>>
    BY DEF Body
  <2>2. pc[r] = "body"
    BY DEF Body
  <2> QED
    BY <2>1, <2>2, FreshKept
<1>5. Filed'
  BY DEF Body, TypeOK, Filed, Uploading
<1>6. Stored'
  BY DEF Body, TypeOK, Stored, Uploading
<1>7. Inserted'
  BY DEF Body, TypeOK, Inserted, Over
<1>8. Doomed'
  BY DEF Body, TypeOK, Doomed, Over
<1>9. Chosen'
  BY DEF Body, TypeOK, Chosen
<1>10. Rowless'
  BY DEF Body, TypeOK, Rowless
<1>11. Known'
  BY DEF Body, TypeOK, Known, Over
<1>12. Covered'
  BY DEF Body, TypeOK, Covered, PagesOf
<1>13. Above'
  BY DEF Body, TypeOK, Above, PagesOf
<1>14. Positive'
  BY DEF Body, TypeOK, Positive
<1>15. RowHasOriginal'
  BY DEF Body, RowHasOriginal
<1>16. PagesDistinct'
  BY DEF Body, PagesDistinct
<1>17. OrphanHasCause'
  BY DEF Body, TypeOK, OrphanHasCause, Filed
<1> QED
  BY <1>0, <1>1, <1>2, <1>3, <1>4, <1>5, <1>6, <1>7, <1>8, <1>9, <1>10, <1>11, <1>12, <1>13, <1>14, <1>15, <1>16, <1>17

\* A new song has no pages.
LEMMA CreateKeeps ==
  ASSUME Inv, NEW r \in Requests, Create(r)
  PROVE  Inv'
<1> USE DEF Inv, Goto, Reply, At, db, disk, OnLoop
<1>0. TypeOK'
  BY DEF Create, TypeOK, Routed, Asked
<1>1. Routed'
  BY DEF Create, TypeOK, Routed, PlacesOf
<1>2. Unanswered'
  BY DEF Create, TypeOK, Unanswered
<1>3. Alone'
  BY DEF Create, TypeOK, Alone, Uploading
<1>4. FreshSongs'
  BY DEF Create, TypeOK, FreshSongs, Pending
<1>5. Filed'
  BY DEF Create, Filed, Uploading
<1>6. Stored'
  BY DEF Create, Stored, Uploading
<1>7. Inserted'
  BY DEF Create, Inserted, Over
<1>8. Doomed'
  BY DEF Create, Doomed, Over
<1>9. Chosen'
  BY DEF Create, Chosen
<1>10. Rowless'
  BY DEF Create, Rowless
<1>11. Known'
  BY DEF Create, Known, Over
<1>12. Covered'
  BY DEF Create, Covered, PagesOf
<1>13. Above'
  BY DEF Create, Above, PagesOf
<1>14. Positive'
  BY DEF Create, Positive
<1>15. RowHasOriginal'
  BY DEF Create, RowHasOriginal
<1>16. PagesDistinct'
  BY DEF Create, PagesDistinct
<1>17. OrphanHasCause'
  <2>1. \A s \in Requests \cap files : req[s].song \in live' => req[s].song \in live
    <3> SUFFICES ASSUME NEW s \in Requests \cap files, req[s].song = req[r].song,
                        req[r].song \notin live
                 PROVE  FALSE
      BY DEF Create
    <3>1. Pending(r) /\ s # r
      BY DEF Create, Pending, Filed, Uploading, Uploads
    <3>2. pc[s] # "idle"
      BY DEF Filed, Uploading
    <3> QED
      BY <3>1, <3>2 DEF FreshSongs
  <2>2. r \notin files
    BY DEF Create, Filed, Uploading, Uploads
  <2> QED
    BY <2>1, <2>2, OrphansKept DEF Create
<1> QED
  BY <1>0, <1>1, <1>2, <1>3, <1>4, <1>5, <1>6, <1>7, <1>8, <1>9, <1>10, <1>11, <1>12, <1>13, <1>14, <1>15, <1>16, <1>17

\* The number is above all of them.
LEMMA NumberKeeps ==
  ASSUME Inv, NEW r \in Requests, Number(r)
  PROVE  Inv'
<1> USE DEF Inv, Goto, Reply, At, db, disk, OnLoop
<1>0. TypeOK'
  <2>0. PICK top \in Nat : number' = [number EXCEPT ![r] = top + 1]
    <3> DEFINE m == Max(Numbers(req[r].song) \cup {0})
    <3>1. m \in Nat
      BY MaxNumber
    <3>2. number' = [number EXCEPT ![r] = m + 1]
      BY DEF Number
    <3> QED
      BY <3>1, <3>2
  <2>1. number' \in [Requests -> Nat]
    BY <2>0, Incremented DEF TypeOK
  <2>2. pc' = [pc EXCEPT ![r] = "mkdir"] /\ UNCHANGED <<live, row, files, dirs, loop, req, doomed, answer>>
    BY DEF Number
  <2> QED
    BY <2>1, <2>2 DEF TypeOK
<1>1. Routed'
  BY DEF Number, Routed, Kinds, Asked, PlacesOf
<1>2. Unanswered'
  BY DEF Number, TypeOK, Unanswered
<1>3. Alone'
  BY DEF Number, Alone, Uploading
<1>4. FreshSongs'
  BY DEF Number, FreshSongs, Pending, Routed, PlacesOf
<1>5. Filed'
  BY DEF Number, Filed, Uploading
<1>6. Stored'
  BY DEF Number, Stored, Uploading
<1>7. Inserted'
  BY DEF Number, Inserted, Over
<1>8. Doomed'
  BY DEF Number, Doomed, Over
<1>9. Chosen'
  BY DEF Number, Chosen
<1>10. Rowless'
  BY DEF Number, Rowless
<1>11. Known'
  BY DEF Number, Known, Over
<1>12. Covered'
  BY DEF Number, Covered, PagesOf
<1>13. Above'
  <2>1. number'[r] = Max(Numbers(req[r].song) \cup {0}) + 1
    BY DEF Number, TypeOK
  <2>2. \A s \in PagesOf(req[r].song) : row[s].no < number'[r]
    BY <2>1, MaxNumber, PagesFinite
  <2>3. \A q \in Requests \ {r} : number'[q] = number[q] /\ pc'[q] = pc[q]
    BY DEF Number, TypeOK
  <2>4. row' = row /\ req' = req
    BY DEF Number
  <2> QED
    BY <2>2, <2>3, <2>4 DEF Above, PagesOf
<1>14. Positive'
  <2>0. PICK top \in Nat : number' = [number EXCEPT ![r] = top + 1]
    <3> DEFINE m == Max(Numbers(req[r].song) \cup {0})
    <3>1. m \in Nat
      BY MaxNumber
    <3>2. number' = [number EXCEPT ![r] = m + 1]
      BY DEF Number
    <3> QED
      BY <3>1, <3>2
  <2>1. number'[r] # 0
    <3>1. number \in [Requests -> Nat]
      BY DEF TypeOK
    <3>2. number'[r] = top + 1
      BY <2>0, <3>1
    <3> QED
      BY <3>2
  <2>2. \A q \in Requests \ {r} : number'[q] = number[q] /\ pc'[q] = pc[q]
    BY DEF Number, TypeOK
  <2>3. req' = req
    BY DEF Number
  <2> QED
    BY <2>1, <2>2, <2>3 DEF Positive
<1>15. RowHasOriginal'
  BY DEF Number, RowHasOriginal
<1>16. PagesDistinct'
  BY DEF Number, PagesDistinct
<1>17. OrphanHasCause'
  BY DEF Number, OrphanHasCause
<1> QED
  BY <1>0, <1>1, <1>2, <1>3, <1>4, <1>5, <1>6, <1>7, <1>8, <1>9, <1>10, <1>11, <1>12, <1>13, <1>14, <1>15, <1>16, <1>17

\* The directory is there for now.
LEMMA MakeDirKeeps ==
  ASSUME Inv, NEW r \in Requests, MakeDir(r)
  PROVE  Inv'
<1> USE DEF Inv, Goto, Reply, At, db, disk, OnLoop
<1>0. TypeOK'
  BY DEF MakeDir, TypeOK, Routed, Asked
<1>1. Routed'
  BY DEF MakeDir, Routed, Kinds, Asked, PlacesOf
<1>2. Unanswered'
  BY DEF MakeDir, TypeOK, Unanswered
<1>3. Alone'
  BY DEF MakeDir, Alone, Uploading
<1>4. FreshSongs'
  BY DEF MakeDir, FreshSongs, Pending
<1>5. Filed'
  BY DEF MakeDir, Filed, Uploading
<1>6. Stored'
  BY DEF MakeDir, Stored, Uploading
<1>7. Inserted'
  BY DEF MakeDir, Inserted, Over
<1>8. Doomed'
  BY DEF MakeDir, Doomed, Over
<1>9. Chosen'
  BY DEF MakeDir, Chosen
<1>10. Rowless'
  BY DEF MakeDir, Rowless
<1>11. Known'
  BY DEF MakeDir, Known, Over
<1>12. Covered'
  BY DEF MakeDir, Covered, PagesOf
<1>13. Above'
  BY DEF MakeDir, Above, PagesOf
<1>14. Positive'
  BY DEF MakeDir, Positive
<1>15. RowHasOriginal'
  BY DEF MakeDir, RowHasOriginal
<1>16. PagesDistinct'
  BY DEF MakeDir, PagesDistinct
<1>17. OrphanHasCause'
  BY DEF MakeDir, OrphanHasCause
<1> QED
  BY <1>0, <1>1, <1>2, <1>3, <1>4, <1>5, <1>6, <1>7, <1>8, <1>9, <1>10, <1>11, <1>12, <1>13, <1>14, <1>15, <1>16, <1>17

\* The file is there before the row.
LEMMA StoreKeeps ==
  ASSUME Inv, NEW r \in Requests, Store(r)
  PROVE  Inv'
<1> USE DEF Inv, Goto, Reply, At, db, disk, OnLoop
<1>0. TypeOK'
  <2>1. PICK p \in {"insert", "done"} : pc' = [pc EXCEPT ![r] = p]
    BY DEF Store
  <2>2. answer' = answer \/ \E a \in {"failed", "diskFull"} : answer' = [answer EXCEPT ![r] = a]
    BY DEF Store
  <2>3. /\ loop' \in {loop, Nobody} /\ UNCHANGED <<live, row, dirs, req, number, doomed>>
        /\ files' \in {files, files \cup {r}} /\ r \in Scans
    BY DEF Store, Scans
  <2> QED
    BY <2>1, <2>2, <2>3 DEF TypeOK
<1>1. Routed'
  <2>1. req[r] \in Asked /\ req[r].kind \in Uploads
    BY DEF Store, Routed, Asked, Kinds, Uploads, PlacesOf
  <2>2. \E p \in {"insert", "done"} : pc' = [pc EXCEPT ![r] = p]
    BY DEF Store
  <2>3. req' = req
    BY DEF Store
  <2> QED
    BY <2>1, <2>2, <2>3, RoutedKept DEF PlacesOf, Uploads
<1>2. Unanswered'
  BY DEF Store, TypeOK, Unanswered
<1>3. Alone'
  BY DEF Store, TypeOK, Alone, Uploading
<1>4. FreshSongs'
  <2>1. PICK p \in {"insert", "done"} : pc' = [pc EXCEPT ![r] = p]
    BY DEF Store
  <2>2. pc[r] = "store" /\ UNCHANGED <<live, req>> /\ (files' = files \cup {r} \/ files' = files)
    BY DEF Store
  <2> QED
    BY <2>1, <2>2, FreshKept
<1>5. Filed'
  <2>1. PICK p \in {"insert", "done"} : pc' = [pc EXCEPT ![r] = p]
    BY DEF Store
  <2>2. files' = files \cup {r} \/ files' = files
    BY DEF Store
  <2>3. req' = req /\ req[r].kind \in Uploads
    BY DEF Store, Routed, PlacesOf, Asked, Kinds, Uploads
  <2> QED
    BY <2>1, <2>2, <2>3 DEF Filed, Uploading, TypeOK
<1>6. Stored'
  BY DEF Store, TypeOK, Stored, Uploading
<1>7. Inserted'
  BY DEF Store, TypeOK, Inserted, Over
<1>8. Doomed'
  BY DEF Store, TypeOK, Doomed, Over
<1>9. Chosen'
  BY DEF Store, TypeOK, Chosen
<1>10. Rowless'
  BY DEF Store, TypeOK, Rowless
<1>11. Known'
  BY DEF Store, TypeOK, Known, Over
<1>12. Covered'
  BY DEF Store, TypeOK, Covered, PagesOf
<1>13. Above'
  BY DEF Store, TypeOK, Above, PagesOf
<1>14. Positive'
  BY DEF Store, TypeOK, Positive
<1>15. RowHasOriginal'
  BY DEF Store, RowHasOriginal
<1>16. PagesDistinct'
  BY DEF Store, PagesDistinct
<1>17. OrphanHasCause'
  <2>1. CASE files' = files
    <3>1. pc' = [pc EXCEPT ![r] = "insert"] \/ pc' = [pc EXCEPT ![r] = "done"]
      BY DEF Store
    <3>2. r \in files => pc[r] # "store"
      BY DEF Filed
    <3>3. /\ answer' = answer \/ \E a : answer' = [answer EXCEPT ![r] = a]
          /\ UNCHANGED <<row, req, doomed, live>> /\ pc[r] = "store"
      BY DEF Store
    <3> QED
      BY <2>1, <3>1, <3>2, <3>3, OrphansKept
  <2>2. CASE files' # files
    <3>1. /\ files' = files \cup {r} /\ UNCHANGED <<row, req, doomed, live>> /\ pc[r] = "store"
          /\ \/ pc' = [pc EXCEPT ![r] = "insert"] /\ answer' = answer
             \/ pc' = [pc EXCEPT ![r] = "done"] /\ answer' = [answer EXCEPT ![r] = "diskFull"]
      BY <2>2 DEF Store
    <3>2. pc'[r] = "insert" \/ answer'[r] = "diskFull"
      BY <3>1 DEF TypeOK
    <3>3. \A s \in Requests : s # r => pc'[s] = pc[s] /\ answer'[s] = answer[s]
      BY <3>1 DEF TypeOK
    <3>4. pc[r] \notin {"insert", "cleanup", "died"} /\ r \in Requests
      BY <3>1
    <3>5. ASSUME NEW s \in files', row'[s] = NoRow
          PROVE  \/ \E q \in Requests : s \in doomed'[q]
                 \/ /\ s \in Requests
                    /\ \/ pc'[s] \in {"insert", "cleanup", "died"}
                       \/ answer'[s] = "diskFull"
                       \/ req'[s].song \notin live'
      <4>1. CASE s = r
        BY <3>2, <3>4, <4>1
      <4>2. CASE s # r
        <5>1. s \in files /\ row[s] = NoRow
          BY <3>1, <3>5, <4>2
        <5> QED
          BY <3>1, <3>3, <4>2, <5>1 DEF OrphanHasCause
      <4> QED
        BY <4>1, <4>2
    <3> QED
      BY <3>5 DEF OrphanHasCause
  <2> QED
    BY <2>1, <2>2
<1> QED
  BY <1>0, <1>1, <1>2, <1>3, <1>4, <1>5, <1>6, <1>7, <1>8, <1>9, <1>10, <1>11, <1>12, <1>13, <1>14, <1>15, <1>16, <1>17

\* The row takes its number, still above all, and its file.
LEMMA InsertKeeps ==
  ASSUME Inv, NEW r \in Requests, Insert(r)
  PROVE  Inv'
<1> USE DEF Inv, Goto, Reply, At, db, disk, OnLoop
<1>0. TypeOK'
  <2> DEFINE page == [song |-> req[r].song,
                      no |-> IF req[r].kind = "import" THEN 1 ELSE number[r]]
  <2>1. row' = [row EXCEPT ![r] = page] /\ r \in Scans
    BY DEF Insert, Scans
  <2>2. page \in Page
    <3>1. req[r].kind # "import" => number[r] \in Nat \ {0}
      BY NumberPositive DEF Insert, Uploads
    <3>2. req[r].song \in Songs
      BY DEF Insert, Routed, Asked
    <3> QED
      BY <3>1, <3>2 DEF Page
  <2> HIDE DEF page
  <2>3. row' \in [Scans -> Page \cup {NoRow}]
    BY <2>1, <2>2 DEF TypeOK
  <2>4. /\ pc' = [pc EXCEPT ![r] = "answer"] /\ live' = live \cup {req[r].song} /\ req[r].song \in Songs
        /\ UNCHANGED <<files, dirs, loop, req, number, doomed, answer>>
    BY DEF Insert, Routed, Asked
  <2> QED
    BY <2>3, <2>4 DEF TypeOK
<1>1. Routed'
  BY DEF Insert, TypeOK, Routed, Uploads, PlacesOf
<1>2. Unanswered'
  BY DEF Insert, TypeOK, Unanswered
<1>3. Alone'
  BY DEF Insert, Alone, Uploading
<1>4. FreshSongs'
  BY DEF Insert, TypeOK, FreshSongs, Pending, Uploads
<1>5. Filed'
  BY DEF Insert, Filed, Uploading
<1>6. Stored'
  BY DEF Insert, Stored, Uploading
<1>7. Inserted'
  BY DEF Insert, TypeOK, Inserted, Over
<1>8. Doomed'
  BY DEF Insert, Doomed, Over
<1>9. Chosen'
  <2>1. \A q \in Requests : r \notin doomed[q]
    BY DEF Insert, Doomed, Over
  <2>2. \A s \in Scans \ {r} : row'[s] = row[s]
    BY DEF Insert, TypeOK
  <2>3. \A q \in Requests : pc'[q] = "delete" => pc[q] = "delete"
    BY DEF Insert, TypeOK
  <2>4. \A q \in Requests : doomed[q] \subseteq Scans
    BY DEF TypeOK
  <2>5. UNCHANGED <<req, doomed>>
    BY DEF Insert
  <2> QED
    BY <2>1, <2>2, <2>3, <2>4, <2>5 DEF Chosen
<1>10. Rowless'
  BY DEF Insert, Rowless, Doomed, Over
<1>11. Known'
  BY DEF Insert, Known, Over
<1>12. Covered'
  BY DEF Insert, Covered, PagesOf
<1>13. Above'
  <2> SUFFICES ASSUME NEW q \in Requests, pc'[q] \in {"mkdir", "store", "insert"},
                      req'[q].kind = "upload", NEW s \in PagesOf(req[q].song)'
               PROVE  row'[s].no < number'[q]
    BY DEF Above
  <2>1. q # r /\ pc[q] = pc'[q] /\ UNCHANGED <<req, number>>
    BY DEF Insert, TypeOK
  <2>2. FALSE
    <3>1. loop = r
      BY DEF Insert, Alone, Uploading
    <3>2. loop = q
      BY <2>1 DEF Alone, Uploading, Uploads
    <3> QED
      BY <2>1, <3>1, <3>2
  <2> QED
    BY <2>2
<1>14. Positive'
  BY DEF Insert, Positive
<1>15. RowHasOriginal'
  BY DEF Insert, RowHasOriginal, Stored, Uploading
<1>16. PagesDistinct'
  <2> DEFINE page == [song |-> req[r].song,
                      no |-> IF req[r].kind = "import" THEN 1 ELSE number[r]]
  <2>1. row' = [row EXCEPT ![r] = page]
    BY DEF Insert
  <2>2. \A s \in Scans \ {r} : row[s] # NoRow => row[s] # page
    <3> SUFFICES ASSUME NEW s \in Scans \ {r}, row[s] # NoRow, row[s] = page PROVE FALSE
      OBVIOUS
    <3>1. s \in PagesOf(req[r].song) /\ req[r].song \in live
      BY DEF PagesOf, RowHasOriginal
    <3>2. req[r].kind = "upload"
      <4>1. ~ Pending(r)
        BY <3>1 DEF FreshSongs
      <4> QED
        BY <4>1 DEF Insert, Pending, Uploads
    <3>3. row[s].no < number[r]
      BY <3>1, <3>2 DEF Insert, Above
    <3>5. page.no = number[r]
      BY <3>2
    <3>4. number[r] \in Nat /\ row[s].no = number[r]
      BY <3>5 DEF TypeOK
    <3> QED
      BY <3>3, <3>4
  <2>3. \A s \in Scans \ {r} : row'[s] = row[s]
    BY <2>1 DEF TypeOK
  <2>4. row'[r] = page
    BY <2>1 DEF TypeOK, Scans
  <2> HIDE DEF page
  <2> QED
    BY <2>2, <2>3, <2>4 DEF PagesDistinct
<1>17. OrphanHasCause'
  <2> DEFINE page == [song |-> req[r].song,
                      no |-> IF req[r].kind = "import" THEN 1 ELSE number[r]]
  <2>1. row' = [row EXCEPT ![r] = page] /\ r \in Scans
    BY DEF Insert, Scans
  <2>2. page \in Page
    <3>1. req[r].kind # "import" => number[r] \in Nat \ {0}
      BY NumberPositive DEF Insert, Uploads
    <3>2. req[r].song \in Songs
      BY DEF Insert, Routed, Asked
    <3> QED
      BY <3>1, <3>2 DEF Page
  <2> HIDE DEF page
  <2>3. row'[r] # NoRow
    BY <2>1, <2>2, NoRowAssumption DEF TypeOK
  <2>5. \A s \in Requests \cap files : s # r /\ req[s].song \in live' => req[s].song \in live
    <3> SUFFICES ASSUME NEW s \in Requests \cap files, s # r, req[s].song = req[r].song,
                        req[r].song \notin live
                 PROVE  FALSE
      BY DEF Insert
    <3>1. Pending(r)
      BY DEF Insert, Pending, Uploads
    <3>2. pc[s] # "idle"
      BY DEF Filed, Uploading
    <3> QED
      BY <3>1, <3>2 DEF FreshSongs
  <2>4. /\ \A s \in Scans \ {r} : row'[s] = row[s]
        /\ \A s \in Requests \ {r} : pc'[s] = pc[s]
        /\ UNCHANGED <<files, answer, req, doomed>> /\ files \subseteq Scans
    BY DEF Insert, TypeOK
  <2> QED
    BY <2>5, <2>3, <2>4 DEF OrphanHasCause
<1> QED
  BY <1>0, <1>1, <1>2, <1>3, <1>4, <1>5, <1>6, <1>7, <1>8, <1>9, <1>10, <1>11, <1>12, <1>13, <1>14, <1>15, <1>16, <1>17

\* The row was not written.
LEMMA InsertFailsKeeps ==
  ASSUME Inv, NEW r \in Requests, InsertFails(r)
  PROVE  Inv'
<1> USE DEF Inv, Goto, Reply, At, db, disk, OnLoop
<1>0. TypeOK'
  BY DEF InsertFails, TypeOK
<1>1. Routed'
  BY DEF InsertFails, TypeOK, Routed, Uploads, PlacesOf
<1>2. Unanswered'
  BY DEF InsertFails, TypeOK, Unanswered
<1>3. Alone'
  BY DEF InsertFails, Alone, Uploading
<1>4. FreshSongs'
  BY DEF InsertFails, FreshSongs, Pending
<1>5. Filed'
  BY DEF InsertFails, Filed, Uploading
<1>6. Stored'
  BY DEF InsertFails, Stored, Uploading
<1>7. Inserted'
  BY DEF InsertFails, Inserted, Over
<1>8. Doomed'
  BY DEF InsertFails, Doomed, Over
<1>9. Chosen'
  BY DEF InsertFails, Chosen
<1>10. Rowless'
  BY DEF InsertFails, Rowless
<1>11. Known'
  BY DEF InsertFails, Known, Over
<1>12. Covered'
  BY DEF InsertFails, Covered, PagesOf
<1>13. Above'
  BY DEF InsertFails, Above, PagesOf
<1>14. Positive'
  BY DEF InsertFails, Positive
<1>15. RowHasOriginal'
  BY DEF InsertFails, RowHasOriginal
<1>16. PagesDistinct'
  BY DEF InsertFails, PagesDistinct
<1>17. OrphanHasCause'
  BY DEF InsertFails, OrphanHasCause
<1> QED
  BY <1>0, <1>1, <1>2, <1>3, <1>4, <1>5, <1>6, <1>7, <1>8, <1>9, <1>10, <1>11, <1>12, <1>13, <1>14, <1>15, <1>16, <1>17

\* Its file goes; it had no row.
LEMMA CleanupKeeps ==
  ASSUME Inv, NEW r \in Requests, Cleanup(r)
  PROVE  Inv'
<1> USE DEF Inv, Goto, Reply, At, db, disk, OnLoop
<1>0. TypeOK'
  BY DEF Cleanup, TypeOK, Prune
<1>1. Routed'
  BY DEF Cleanup, TypeOK, Routed, PlacesOf
<1>2. Unanswered'
  BY DEF Cleanup, TypeOK, Unanswered
<1>3. Alone'
  BY DEF Cleanup, TypeOK, Alone, Uploading
<1>4. FreshSongs'
  BY DEF Cleanup, FreshSongs, Pending
<1>5. Filed'
  BY DEF Cleanup, Filed, Uploading
<1>6. Stored'
  BY DEF Cleanup, Stored, Uploading
<1>7. Inserted'
  BY DEF Cleanup, Inserted, Over
<1>8. Doomed'
  BY DEF Cleanup, TypeOK, Doomed, Over
<1>9. Chosen'
  BY DEF Cleanup, Chosen
<1>10. Rowless'
  BY DEF Cleanup, Rowless
<1>11. Known'
  BY DEF Cleanup, Known, Over
<1>12. Covered'
  BY DEF Cleanup, Covered, PagesOf
<1>13. Above'
  BY DEF Cleanup, Above, PagesOf
<1>14. Positive'
  BY DEF Cleanup, Positive
<1>15. RowHasOriginal'
  BY DEF Cleanup, RowHasOriginal, Inserted, Over
<1>16. PagesDistinct'
  BY DEF Cleanup, PagesDistinct
<1>17. OrphanHasCause'
  BY DEF Cleanup, OrphanHasCause
<1> QED
  BY <1>0, <1>1, <1>2, <1>3, <1>4, <1>5, <1>6, <1>7, <1>8, <1>9, <1>10, <1>11, <1>12, <1>13, <1>14, <1>15, <1>16, <1>17

\* The answer reads only.
LEMMA AnswerKeeps ==
  ASSUME Inv, NEW r \in Requests, Answer(r)
  PROVE  Inv'
<1> USE DEF Inv, Goto, Reply, At, db, disk, OnLoop
<1>0. TypeOK'
  BY DEF Answer, TypeOK
<1>1. Routed'
  BY DEF Answer, TypeOK, Routed, PlacesOf
<1>2. Unanswered'
  BY DEF Answer, TypeOK, Unanswered
<1>3. Alone'
  BY DEF Answer, TypeOK, Alone, Uploading
<1>4. FreshSongs'
  BY DEF Answer, FreshSongs, Pending
<1>5. Filed'
  BY DEF Answer, Filed, Uploading
<1>6. Stored'
  BY DEF Answer, Stored, Uploading
<1>7. Inserted'
  BY DEF Answer, Inserted, Over
<1>8. Doomed'
  BY DEF Answer, Doomed, Over
<1>9. Chosen'
  BY DEF Answer, Chosen
<1>10. Rowless'
  BY DEF Answer, Rowless
<1>11. Known'
  BY DEF Answer, Known, Over
<1>12. Covered'
  BY DEF Answer, Covered, PagesOf
<1>13. Above'
  BY DEF Answer, Above, PagesOf
<1>14. Positive'
  BY DEF Answer, Positive
<1>15. RowHasOriginal'
  BY DEF Answer, RowHasOriginal
<1>16. PagesDistinct'
  BY DEF Answer, PagesDistinct
<1>17. OrphanHasCause'
  BY DEF Answer, TypeOK, OrphanHasCause, Unanswered
<1> QED
  BY <1>0, <1>1, <1>2, <1>3, <1>4, <1>5, <1>6, <1>7, <1>8, <1>9, <1>10, <1>11, <1>12, <1>13, <1>14, <1>15, <1>16, <1>17

\* The row goes before its file, and the others close up.
LEMMA DeleteScanKeeps ==
  ASSUME Inv, NEW r \in Requests, DeleteScan(r)
  PROVE  Inv'
<1> USE DEF Inv, Goto, Reply, At, db, disk, OnLoop
<1>0. TypeOK'
  <2> DEFINE g == req[r].song
             gone == req[r].scan
  <2>1. g \in Songs /\ gone \in Scans
    BY DEF DeleteScan, Routed, Asked
  <2>2. /\ row' \in [Scans -> Page \cup {NoRow}]
        /\ row'[gone] = NoRow
        /\ \A s \in Scans \ {gone} :
             IF row[s] = NoRow THEN row'[s] = NoRow
             ELSE row'[s] # NoRow /\ row'[s].song = row[s].song /\ row'[s].no <= row[s].no
        /\ \A s, t \in Scans : row'[s] # NoRow /\ row'[s] = row'[t] => s = t
    BY <2>1, RenumberedPages DEF DeleteScan
  <2>3. /\ pc' = [pc EXCEPT ![r] = "unlink"] /\ pc[r] = "delete" /\ req[r].kind = "deleteScan"
        /\ doomed' = [doomed EXCEPT ![r] = {gone}]
        /\ UNCHANGED <<live, files, req, number, answer>>
    BY DEF DeleteScan
  <2> HIDE DEF g, gone
  <2>4. doomed' \in [Requests -> SUBSET Scans]
    BY <2>1, <2>3 DEF TypeOK
  <2>5. loop' = loop /\ dirs' = dirs
    BY DEF DeleteScan
  <2> QED
    BY <2>2, <2>3, <2>4, <2>5 DEF TypeOK
<1>1. Routed'
  BY DEF DeleteScan, TypeOK, Routed, PlacesOf
<1>2. Unanswered'
  BY DEF DeleteScan, TypeOK, Unanswered
<1>3. Alone'
  BY DEF DeleteScan, Alone, Uploading
<1>4. FreshSongs'
  BY DEF DeleteScan, FreshSongs, Pending
<1>5. Filed'
  BY DEF DeleteScan, Filed, Uploading
<1>6. Stored'
  BY DEF DeleteScan, Stored, Uploading
<1>7. Inserted'
  <2> DEFINE g == req[r].song
             gone == req[r].scan
  <2>1. g \in Songs /\ gone \in Scans
    BY DEF DeleteScan, Routed, Asked
  <2>2. /\ row' \in [Scans -> Page \cup {NoRow}]
        /\ row'[gone] = NoRow
        /\ \A s \in Scans \ {gone} :
             IF row[s] = NoRow THEN row'[s] = NoRow
             ELSE row'[s] # NoRow /\ row'[s].song = row[s].song /\ row'[s].no <= row[s].no
        /\ \A s, t \in Scans : row'[s] # NoRow /\ row'[s] = row'[t] => s = t
    BY <2>1, RenumberedPages DEF DeleteScan
  <2>3. /\ pc' = [pc EXCEPT ![r] = "unlink"] /\ pc[r] = "delete" /\ req[r].kind = "deleteScan"
        /\ doomed' = [doomed EXCEPT ![r] = {gone}]
        /\ UNCHANGED <<live, files, req, number, answer>>
    BY DEF DeleteScan
  <2> HIDE DEF g, gone
  <2> QED
    BY <2>2, <2>3 DEF Inserted, Over, TypeOK
<1>8. Doomed'
  BY DEF DeleteScan, TypeOK, Doomed, Over, Known
<1>9. Chosen'
  <2> DEFINE g == req[r].song
             gone == req[r].scan
  <2>1. g \in Songs /\ gone \in Scans
    BY DEF DeleteScan, Routed, Asked
  <2>2. /\ row' \in [Scans -> Page \cup {NoRow}]
        /\ row'[gone] = NoRow
        /\ \A s \in Scans \ {gone} :
             IF row[s] = NoRow THEN row'[s] = NoRow
             ELSE row'[s] # NoRow /\ row'[s].song = row[s].song /\ row'[s].no <= row[s].no
        /\ \A s, t \in Scans : row'[s] # NoRow /\ row'[s] = row'[t] => s = t
    BY <2>1, RenumberedPages DEF DeleteScan
  <2>3. /\ pc' = [pc EXCEPT ![r] = "unlink"] /\ pc[r] = "delete" /\ req[r].kind = "deleteScan"
        /\ doomed' = [doomed EXCEPT ![r] = {gone}]
        /\ UNCHANGED <<live, files, req, number, answer>>
    BY DEF DeleteScan
  <2> HIDE DEF g, gone
  <2>4. \A q \in Requests : pc'[q] = "delete" => pc[q] = "delete" /\ doomed'[q] = doomed[q] /\ doomed[q] \subseteq Scans
    BY <2>3 DEF TypeOK
  <2> QED
    BY <2>2, <2>3, <2>4 DEF Chosen
<1>10. Rowless'
  <2> DEFINE g == req[r].song
             gone == req[r].scan
  <2>1. g \in Songs /\ gone \in Scans
    BY DEF DeleteScan, Routed, Asked
  <2>2. /\ row' \in [Scans -> Page \cup {NoRow}]
        /\ row'[gone] = NoRow
        /\ \A s \in Scans \ {gone} :
             IF row[s] = NoRow THEN row'[s] = NoRow
             ELSE row'[s] # NoRow /\ row'[s].song = row[s].song /\ row'[s].no <= row[s].no
        /\ \A s, t \in Scans : row'[s] # NoRow /\ row'[s] = row'[t] => s = t
    BY <2>1, RenumberedPages DEF DeleteScan
  <2>3. /\ pc' = [pc EXCEPT ![r] = "unlink"] /\ pc[r] = "delete" /\ req[r].kind = "deleteScan"
        /\ doomed' = [doomed EXCEPT ![r] = {gone}]
        /\ UNCHANGED <<live, files, req, number, answer>>
    BY DEF DeleteScan
  <2> HIDE DEF g, gone
  <2>4. \A q \in Requests \ {r} : pc'[q] = pc[q] /\ doomed'[q] = doomed[q] /\ doomed[q] \subseteq Scans
    BY <2>3 DEF TypeOK
  <2>5. doomed'[r] = {gone}
    BY <2>3 DEF TypeOK
  <2> QED
    BY <2>2, <2>4, <2>5 DEF Rowless
<1>11. Known'
  BY DEF DeleteScan, Known, Over
<1>12. Covered'
  <2> DEFINE g == req[r].song
             gone == req[r].scan
  <2>1. g \in Songs /\ gone \in Scans
    BY DEF DeleteScan, Routed, Asked
  <2>2. /\ row' \in [Scans -> Page \cup {NoRow}]
        /\ row'[gone] = NoRow
        /\ \A s \in Scans \ {gone} :
             IF row[s] = NoRow THEN row'[s] = NoRow
             ELSE row'[s] # NoRow /\ row'[s].song = row[s].song /\ row'[s].no <= row[s].no
        /\ \A s, t \in Scans : row'[s] # NoRow /\ row'[s] = row'[t] => s = t
    BY <2>1, RenumberedPages DEF DeleteScan
  <2>3. /\ pc' = [pc EXCEPT ![r] = "unlink"] /\ pc[r] = "delete" /\ req[r].kind = "deleteScan"
        /\ doomed' = [doomed EXCEPT ![r] = {gone}]
        /\ UNCHANGED <<live, files, req, number, answer>>
    BY DEF DeleteScan
  <2> HIDE DEF g, gone
  <2>4. \A q \in Requests : pc'[q] = "delete" => pc[q] = "delete" /\ doomed'[q] = doomed[q]
    BY <2>3 DEF TypeOK
  <2> QED
    BY <2>2, <2>3, <2>4 DEF Covered, PagesOf
<1>13. Above'
  <2> DEFINE g == req[r].song
             gone == req[r].scan
  <2>1. g \in Songs /\ gone \in Scans
    BY DEF DeleteScan, Routed, Asked
  <2>2. /\ row' \in [Scans -> Page \cup {NoRow}]
        /\ row'[gone] = NoRow
        /\ \A s \in Scans \ {gone} :
             IF row[s] = NoRow THEN row'[s] = NoRow
             ELSE row'[s] # NoRow /\ row'[s].song = row[s].song /\ row'[s].no <= row[s].no
        /\ \A s, t \in Scans : row'[s] # NoRow /\ row'[s] = row'[t] => s = t
    BY <2>1, RenumberedPages DEF DeleteScan
  <2>3. /\ pc' = [pc EXCEPT ![r] = "unlink"] /\ pc[r] = "delete" /\ req[r].kind = "deleteScan"
        /\ doomed' = [doomed EXCEPT ![r] = {gone}]
        /\ UNCHANGED <<live, files, req, number, answer>>
    BY DEF DeleteScan
  <2> HIDE DEF g, gone
  <2> SUFFICES ASSUME NEW q \in Requests, pc'[q] \in {"mkdir", "store", "insert"},
                      req'[q].kind = "upload", NEW s \in PagesOf(req[q].song)'
               PROVE  row'[s].no < number'[q]
    BY DEF Above
  <2>4. pc[q] \in {"mkdir", "store", "insert"}
    BY <2>3 DEF TypeOK
  <2>5. s \in Scans /\ row'[s] # NoRow /\ row'[s].song = req[q].song
    BY <2>3 DEF PagesOf
  <2>6. s # gone /\ row[s] # NoRow /\ row[s].song = req[q].song /\ row'[s].no <= row[s].no
    BY <2>2, <2>5
  <2>7. row[s].no < number[q]
    BY <2>3, <2>4, <2>5, <2>6 DEF Above, PagesOf
  <2>8. row[s] \in Page /\ row'[s] \in Page /\ number[q] \in Nat
    BY <2>2, <2>5, <2>6 DEF TypeOK
  <2>9. row[s].no \in Nat /\ row'[s].no \in Nat
    BY <2>8 DEF Page
  <2> QED
    BY <2>3, <2>6, <2>7, <2>8, <2>9
<1>14. Positive'
  BY DEF DeleteScan, Positive
<1>15. RowHasOriginal'
  <2> DEFINE g == req[r].song
             gone == req[r].scan
  <2>1. g \in Songs /\ gone \in Scans
    BY DEF DeleteScan, Routed, Asked
  <2>2. /\ row' \in [Scans -> Page \cup {NoRow}]
        /\ row'[gone] = NoRow
        /\ \A s \in Scans \ {gone} :
             IF row[s] = NoRow THEN row'[s] = NoRow
             ELSE row'[s] # NoRow /\ row'[s].song = row[s].song /\ row'[s].no <= row[s].no
        /\ \A s, t \in Scans : row'[s] # NoRow /\ row'[s] = row'[t] => s = t
    BY <2>1, RenumberedPages DEF DeleteScan
  <2>3. /\ pc' = [pc EXCEPT ![r] = "unlink"] /\ pc[r] = "delete" /\ req[r].kind = "deleteScan"
        /\ doomed' = [doomed EXCEPT ![r] = {gone}]
        /\ UNCHANGED <<live, files, req, number, answer>>
    BY DEF DeleteScan
  <2> HIDE DEF g, gone
  <2> QED
    BY <2>2, <2>3 DEF RowHasOriginal
<1>16. PagesDistinct'
  <2> DEFINE g == req[r].song
             gone == req[r].scan
  <2>1. g \in Songs /\ gone \in Scans
    BY DEF DeleteScan, Routed, Asked
  <2>2. /\ row' \in [Scans -> Page \cup {NoRow}]
        /\ row'[gone] = NoRow
        /\ \A s \in Scans \ {gone} :
             IF row[s] = NoRow THEN row'[s] = NoRow
             ELSE row'[s] # NoRow /\ row'[s].song = row[s].song /\ row'[s].no <= row[s].no
        /\ \A s, t \in Scans : row'[s] # NoRow /\ row'[s] = row'[t] => s = t
    BY <2>1, RenumberedPages DEF DeleteScan
  <2>3. /\ pc' = [pc EXCEPT ![r] = "unlink"] /\ pc[r] = "delete" /\ req[r].kind = "deleteScan"
        /\ doomed' = [doomed EXCEPT ![r] = {gone}]
        /\ UNCHANGED <<live, files, req, number, answer>>
    BY DEF DeleteScan
  <2> HIDE DEF g, gone
  <2> QED
    BY <2>2 DEF PagesDistinct
<1>17. OrphanHasCause'
  <2> DEFINE g == req[r].song
             gone == req[r].scan
  <2>1. g \in Songs /\ gone \in Scans
    BY DEF DeleteScan, Routed, Asked
  <2>2. /\ row' \in [Scans -> Page \cup {NoRow}]
        /\ row'[gone] = NoRow
        /\ \A s \in Scans \ {gone} :
             IF row[s] = NoRow THEN row'[s] = NoRow
             ELSE row'[s] # NoRow /\ row'[s].song = row[s].song /\ row'[s].no <= row[s].no
        /\ \A s, t \in Scans : row'[s] # NoRow /\ row'[s] = row'[t] => s = t
    BY <2>1, RenumberedPages DEF DeleteScan
  <2>3. /\ pc' = [pc EXCEPT ![r] = "unlink"] /\ pc[r] = "delete" /\ req[r].kind = "deleteScan"
        /\ doomed' = [doomed EXCEPT ![r] = {gone}]
        /\ UNCHANGED <<live, files, req, number, answer>>
    BY DEF DeleteScan
  <2> HIDE DEF g, gone
  <2> SUFFICES ASSUME NEW s \in files', row'[s] = NoRow
               PROVE  \/ \E q \in Requests : s \in doomed'[q]
                      \/ /\ s \in Requests
                         /\ \/ pc'[s] \in {"insert", "cleanup", "died"}
                            \/ answer'[s] = "diskFull"
                            \/ req'[s].song \notin live'
    BY DEF OrphanHasCause
  <2>4. CASE s = gone
    BY <2>3, <2>4 DEF TypeOK
  <2>5. CASE s # gone
    <3>1. row[s] = NoRow /\ s \in files
      BY <2>2, <2>3, <2>5 DEF TypeOK
    <3>2. doomed[r] = {}
      BY <2>3 DEF Chosen
    <3>3. \A q \in Requests : s \in doomed[q] => s \in doomed'[q]
      BY <2>3, <3>2 DEF TypeOK
    <3>4. \A q \in Requests : pc[q] \in {"insert", "cleanup", "died"} => pc'[q] = pc[q]
      BY <2>3 DEF TypeOK
    <3> QED
      BY <2>3, <3>1, <3>3, <3>4 DEF OrphanHasCause
  <2> QED
    BY <2>4, <2>5
<1> QED
  BY <1>0, <1>1, <1>2, <1>3, <1>4, <1>5, <1>6, <1>7, <1>8, <1>9, <1>10, <1>11, <1>12, <1>13, <1>14, <1>15, <1>16, <1>17

\* The files of the pages there are.
LEMMA ListScansKeeps ==
  ASSUME Inv, NEW r \in Requests, ListScans(r)
  PROVE  Inv'
<1> USE DEF Inv, Goto, Reply, At, db, disk, OnLoop
<1>0. TypeOK'
  BY DEF ListScans, TypeOK, PagesOf
<1>1. Routed'
  BY DEF ListScans, Routed, Kinds, Asked, PlacesOf
<1>2. Unanswered'
  BY DEF ListScans, TypeOK, Unanswered
<1>3. Alone'
  BY DEF ListScans, Alone, Uploading
<1>4. FreshSongs'
  BY DEF ListScans, FreshSongs, Pending
<1>5. Filed'
  BY DEF ListScans, Filed, Uploading
<1>6. Stored'
  BY DEF ListScans, Stored, Uploading
<1>7. Inserted'
  BY DEF ListScans, Inserted, Over
<1>8. Doomed'
  BY DEF ListScans, TypeOK, Doomed, Over, PagesOf, Inserted
<1>9. Chosen'
  <2>1. req[r].kind = "deleteSong"
    BY DEF ListScans, Routed, PlacesOf, Asked, Kinds
  <2>2. \A q \in Requests \ {r} : pc'[q] = pc[q] /\ doomed'[q] = doomed[q]
    BY DEF ListScans, TypeOK
  <2>3. doomed'[r] = PagesOf(req[r].song)
    BY DEF ListScans, TypeOK
  <2>4. UNCHANGED <<req, row>>
    BY DEF ListScans
  <2> QED
    BY <2>1, <2>2, <2>3, <2>4 DEF Chosen, PagesOf
<1>10. Rowless'
  BY DEF ListScans, Rowless
<1>11. Known'
  BY DEF ListScans, Known, Over
<1>12. Covered'
  BY DEF ListScans, TypeOK, Covered, PagesOf
<1>13. Above'
  BY DEF ListScans, Above, PagesOf
<1>14. Positive'
  BY DEF ListScans, Positive
<1>15. RowHasOriginal'
  BY DEF ListScans, RowHasOriginal
<1>16. PagesDistinct'
  BY DEF ListScans, PagesDistinct
<1>17. OrphanHasCause'
  BY DEF ListScans, OrphanHasCause, Doomed
<1> QED
  BY <1>0, <1>1, <1>2, <1>3, <1>4, <1>5, <1>6, <1>7, <1>8, <1>9, <1>10, <1>11, <1>12, <1>13, <1>14, <1>15, <1>16, <1>17

\* Every row of the song goes, listed or not.
LEMMA DeleteSongKeeps ==
  ASSUME Inv, NEW r \in Requests, DeleteSong(r)
  PROVE  Inv'
<1> USE DEF Inv, Goto, Reply, At, db, disk, OnLoop
<1>0. TypeOK'
  BY DEF DeleteSong, TypeOK
<1>1. Routed'
  BY DEF DeleteSong, TypeOK, Routed, PlacesOf
<1>2. Unanswered'
  BY DEF DeleteSong, TypeOK, Unanswered
<1>3. Alone'
  BY DEF DeleteSong, Alone, Uploading
<1>4. FreshSongs'
  BY DEF DeleteSong, FreshSongs, Pending
<1>5. Filed'
  BY DEF DeleteSong, Filed, Uploading
<1>6. Stored'
  BY DEF DeleteSong, Stored, Uploading
<1>7. Inserted'
  BY DEF DeleteSong, Inserted, Over
<1>8. Doomed'
  BY DEF DeleteSong, Doomed, Over
<1>9. Chosen'
  BY DEF DeleteSong, TypeOK, Chosen
<1>10. Rowless'
  BY DEF DeleteSong, TypeOK, Rowless, Chosen, PagesOf
<1>11. Known'
  BY DEF DeleteSong, Known, Over
<1>12. Covered'
  BY DEF DeleteSong, Covered, PagesOf
<1>13. Above'
  BY DEF DeleteSong, Above, PagesOf
<1>14. Positive'
  BY DEF DeleteSong, Positive
<1>15. RowHasOriginal'
  BY DEF DeleteSong, RowHasOriginal, PagesOf
<1>16. PagesDistinct'
  BY DEF DeleteSong, PagesDistinct
<1>17. OrphanHasCause'
  <2> DEFINE g == req[r].song
  <2>1. /\ pc' = [pc EXCEPT ![r] = "unlink"] /\ pc[r] = "delete" /\ req[r].kind = "deleteSong"
        /\ UNCHANGED <<files, req, doomed, answer>> /\ live' = live \ {g}
    BY DEF DeleteSong
  <2>2. \A q \in Requests : pc[q] \in {"insert", "cleanup", "died"} => pc'[q] = pc[q]
    BY <2>1 DEF TypeOK
  <2> SUFFICES ASSUME NEW s \in files, row'[s] = NoRow
               PROVE  \/ \E q \in Requests : s \in doomed[q]
                      \/ /\ s \in Requests
                         /\ \/ pc'[s] \in {"insert", "cleanup", "died"}
                            \/ answer[s] = "diskFull"
                            \/ req[s].song \notin live'
    BY <2>1 DEF OrphanHasCause
  <2>3. CASE row[s] = NoRow
    BY <2>1, <2>2, <2>3 DEF OrphanHasCause
  <2>4. CASE row[s] # NoRow
    <3>1. s \in Scans
      BY DEF TypeOK
    <3>2. s \in PagesOf(g)
      BY <2>4, <3>1 DEF DeleteSong, PagesOf
    <3>3. s \in doomed[r] \/ s \in Requests
      BY <2>1, <3>2 DEF Covered
    <3>4. s \in Requests => req[s].song = g
      BY <3>1, <3>2, <2>4 DEF Inserted, PagesOf
    <3> QED
      BY <2>1, <3>3, <3>4
  <2> QED
    BY <2>3, <2>4
<1> QED
  BY <1>0, <1>1, <1>2, <1>3, <1>4, <1>5, <1>6, <1>7, <1>8, <1>9, <1>10, <1>11, <1>12, <1>13, <1>14, <1>15, <1>16, <1>17

\* A transaction that did not start.
LEMMA LockTimeoutKeeps ==
  ASSUME Inv, NEW r \in Requests, LockTimeout(r)
  PROVE  Inv'
<1> USE DEF Inv, Goto, Reply, At, db, disk, OnLoop
<1>0. TypeOK'
  BY DEF LockTimeout, TypeOK
<1>1. Routed'
  BY DEF LockTimeout, TypeOK, Routed, PlacesOf
<1>2. Unanswered'
  BY DEF LockTimeout, TypeOK, Unanswered
<1>3. Alone'
  BY DEF LockTimeout, Alone, Uploading
<1>4. FreshSongs'
  BY DEF LockTimeout, FreshSongs, Pending
<1>5. Filed'
  BY DEF LockTimeout, Filed, Uploading
<1>6. Stored'
  BY DEF LockTimeout, Stored, Uploading
<1>7. Inserted'
  BY DEF LockTimeout, Inserted, Over
<1>8. Doomed'
  BY DEF LockTimeout, Doomed, Over
<1>9. Chosen'
  BY DEF LockTimeout, Chosen
<1>10. Rowless'
  BY DEF LockTimeout, Rowless
<1>11. Known'
  BY DEF LockTimeout, Known, Over
<1>12. Covered'
  BY DEF LockTimeout, Covered, PagesOf
<1>13. Above'
  BY DEF LockTimeout, Above, PagesOf
<1>14. Positive'
  BY DEF LockTimeout, Positive
<1>15. RowHasOriginal'
  BY DEF LockTimeout, RowHasOriginal
<1>16. PagesDistinct'
  BY DEF LockTimeout, PagesDistinct
<1>17. OrphanHasCause'
  <2>1. /\ pc' = [pc EXCEPT ![r] = "done"] /\ pc[r] \in {"charge", "delete", "insert"}
        /\ UNCHANGED <<files, row, req, doomed, live>>
        /\ answer' = [answer EXCEPT ![r] = "failed"]
        /\ pc[r] = "insert" => req[r].kind = "create"
    BY DEF LockTimeout
  <2>2. r \in files => pc[r] \notin {"insert", "cleanup"}
    BY <2>1 DEF Filed, Uploading, Uploads
  <2> QED
    BY <2>1, <2>2, OrphansKept
<1> QED
  BY <1>0, <1>1, <1>2, <1>3, <1>4, <1>5, <1>6, <1>7, <1>8, <1>9, <1>10, <1>11, <1>12, <1>13, <1>14, <1>15, <1>16, <1>17

\* A file goes whose row is gone.
LEMMA UnlinkKeeps ==
  ASSUME Inv, NEW r \in Requests, Unlink(r)
  PROVE  Inv'
<1> USE DEF Inv, Goto, Reply, At, db, disk, OnLoop
<1>0. TypeOK'
  <2>1. PICK s \in doomed[r] :
           /\ files' = files \ {s}
           /\ doomed' = [doomed EXCEPT ![r] = doomed[r] \ {s}]
    BY DEF Unlink
  <2>2. pc[r] = "unlink" /\ UNCHANGED <<pc, req, row, live, answer, number, loop>>
    BY DEF Unlink
  <2>3. doomed' \in [Requests -> SUBSET Scans]
    BY <2>1 DEF TypeOK
  <2>4. dirs' \in SUBSET Songs
    BY DEF Unlink, Prune, TypeOK
  <2> QED
    BY <2>1, <2>2, <2>3, <2>4 DEF TypeOK
<1>1. Routed'
  BY DEF Unlink, Routed
<1>2. Unanswered'
  BY DEF Unlink, Unanswered
<1>3. Alone'
  BY DEF Unlink, Alone, Uploading
<1>4. FreshSongs'
  BY DEF Unlink, FreshSongs, Pending
<1>5. Filed'
  BY DEF Unlink, Filed, Uploading
<1>6. Stored'
  BY DEF Unlink, Stored, Uploading, Doomed, Over
<1>7. Inserted'
  BY DEF Unlink, Inserted, Over
<1>8. Doomed'
  <2>1. PICK s \in doomed[r] :
           /\ files' = files \ {s}
           /\ doomed' = [doomed EXCEPT ![r] = doomed[r] \ {s}]
    BY DEF Unlink
  <2>2. pc[r] = "unlink" /\ UNCHANGED <<pc, req, row, live, answer, number, loop>>
    BY DEF Unlink
  <2>3. \A q \in Requests : doomed'[q] \subseteq doomed[q]
    BY <2>1 DEF TypeOK
  <2> QED
    BY <2>2, <2>3 DEF Doomed, Over
<1>9. Chosen'
  BY DEF Unlink, Chosen
<1>10. Rowless'
  <2>1. PICK s \in doomed[r] :
           /\ files' = files \ {s}
           /\ doomed' = [doomed EXCEPT ![r] = doomed[r] \ {s}]
    BY DEF Unlink
  <2>2. pc[r] = "unlink" /\ UNCHANGED <<pc, req, row, live, answer, number, loop>>
    BY DEF Unlink
  <2>3. \A q \in Requests : doomed'[q] \subseteq doomed[q]
    BY <2>1 DEF TypeOK
  <2> QED
    BY <2>2, <2>3 DEF Rowless
<1>11. Known'
  BY DEF Unlink, Known, Over
<1>12. Covered'
  BY DEF Unlink, Covered, PagesOf
<1>13. Above'
  BY DEF Unlink, Above, PagesOf
<1>14. Positive'
  BY DEF Unlink, Positive
<1>15. RowHasOriginal'
  <2>1. PICK s \in doomed[r] :
           /\ files' = files \ {s}
           /\ doomed' = [doomed EXCEPT ![r] = doomed[r] \ {s}]
    BY DEF Unlink
  <2>2. pc[r] = "unlink" /\ UNCHANGED <<pc, req, row, live, answer, number, loop>>
    BY DEF Unlink
  <2>3. row[s] = NoRow
    BY <2>2 DEF Rowless
  <2> QED
    BY <2>1, <2>2, <2>3 DEF RowHasOriginal
<1>16. PagesDistinct'
  BY DEF Unlink, PagesDistinct
<1>17. OrphanHasCause'
  BY DEF Unlink, OrphanHasCause
<1> QED
  BY <1>0, <1>1, <1>2, <1>3, <1>4, <1>5, <1>6, <1>7, <1>8, <1>9, <1>10, <1>11, <1>12, <1>13, <1>14, <1>15, <1>16, <1>17

\* Nothing is left to unlink.
LEMMA DeletedKeeps ==
  ASSUME Inv, NEW r \in Requests, Deleted(r)
  PROVE  Inv'
<1> USE DEF Inv, Goto, Reply, At, db, disk, OnLoop
<1>0. TypeOK'
  BY DEF Deleted, TypeOK
<1>1. Routed'
  BY DEF Deleted, TypeOK, Routed, PlacesOf
<1>2. Unanswered'
  BY DEF Deleted, TypeOK, Unanswered
<1>3. Alone'
  BY DEF Deleted, Alone, Uploading
<1>4. FreshSongs'
  BY DEF Deleted, FreshSongs, Pending
<1>5. Filed'
  BY DEF Deleted, Filed, Uploading
<1>6. Stored'
  BY DEF Deleted, Stored, Uploading
<1>7. Inserted'
  BY DEF Deleted, Inserted, Over
<1>8. Doomed'
  BY DEF Deleted, Doomed, Over
<1>9. Chosen'
  BY DEF Deleted, Chosen
<1>10. Rowless'
  BY DEF Deleted, Rowless
<1>11. Known'
  BY DEF Deleted, Known, Over
<1>12. Covered'
  BY DEF Deleted, Covered, PagesOf
<1>13. Above'
  BY DEF Deleted, Above, PagesOf
<1>14. Positive'
  BY DEF Deleted, Positive
<1>15. RowHasOriginal'
  BY DEF Deleted, RowHasOriginal
<1>16. PagesDistinct'
  BY DEF Deleted, PagesDistinct
<1>17. OrphanHasCause'
  BY DEF Deleted, OrphanHasCause, Filed
<1> QED
  BY <1>0, <1>1, <1>2, <1>3, <1>4, <1>5, <1>6, <1>7, <1>8, <1>9, <1>10, <1>11, <1>12, <1>13, <1>14, <1>15, <1>16, <1>17

-----------------------------------------------------------------------------
(* The first state, arrivals and crashes.                                  *)

LEMMA InitInv == Init => Inv
<1> SUFFICES ASSUME Init PROVE Inv
  OBVIOUS
<1>1. \A s \in Scans \ Requests :
        /\ row[s] \in Page /\ OldPages[row[s].song] # <<>>
        /\ row[s].no \in DOMAIN OldPages[row[s].song]
        /\ OldPages[row[s].song][row[s].no] = s
  <2> SUFFICES ASSUME NEW s \in Scans \ Requests
               PROVE  /\ row[s] \in Page /\ OldPages[row[s].song] # <<>>
                      /\ row[s].no \in DOMAIN OldPages[row[s].song]
                      /\ OldPages[row[s].song][row[s].no] = s
    OBVIOUS
  <2> DEFINE g == CHOOSE h \in Songs : Contains(OldPages[h], s)
             i == CHOOSE k \in 1 .. Len(OldPages[g]) : OldPages[g][k] = s
  <2>1. \E h \in Songs : Contains(OldPages[h], s)
    <3>1. PICK h \in Songs : s \in ToSet(OldPages[h])
      BY DEF Scans
    <3>2. OldPages[h] \in Seq(ToSet(OldPages[h]))
      BY RequestsAssumption
    <3>3. PICK k \in DOMAIN OldPages[h] : OldPages[h][k] = s
      BY <3>1 DEF ToSet
    <3>4. DOMAIN OldPages[h] = 1 .. Len(OldPages[h])
      BY <3>2
    <3> QED
      BY <3>3, <3>4 DEF Contains
  <2>2. g \in Songs /\ Contains(OldPages[g], s)
    BY <2>1
  <2>3. OldPages[g] \in Seq(ToSet(OldPages[g]))
    BY <2>2, RequestsAssumption
  <2>4. i \in 1 .. Len(OldPages[g]) /\ OldPages[g][i] = s
    BY <2>2 DEF Contains
  <2>5. DOMAIN OldPages[g] = 1 .. Len(OldPages[g]) /\ Len(OldPages[g]) \in Nat
    BY <2>3
  <2>6. row[s] = [song |-> g, no |-> i]
    BY DEF Init
  <2> HIDE DEF g, i
  <2>7. i \in Nat \ {0}
    BY <2>4, <2>5
  <2>8. row[s] \in Page
    BY <2>2, <2>6, <2>7 DEF Page
  <2>9. OldPages[g] # <<>>
    BY <2>4, <2>5
  <2> QED
    BY <2>4, <2>5, <2>6, <2>8, <2>9
<1>2. /\ \A s \in Requests : row[s] = NoRow /\ s \in Scans
      /\ files = Scans \ Requests /\ live = {g \in Songs : OldPages[g] # <<>>} /\ dirs = live
      /\ loop = Nobody /\ row = [s \in Scans |-> row[s]]
      /\ pc = [r \in Requests |-> "idle"] /\ req = [r \in Requests |-> NoRow]
      /\ number = [r \in Requests |-> 0] /\ doomed = [r \in Requests |-> {}]
      /\ answer = [r \in Requests |-> ""]
  BY DEF Init, Scans
<1>3. row \in [Scans -> Page \cup {NoRow}]
  BY <1>1, <1>2
<1>4. TypeOK
  BY <1>2, <1>3 DEF TypeOK
<1>5. Routed /\ Unanswered /\ Alone /\ FreshSongs /\ Filed /\ Stored
  BY <1>2 DEF Routed, Unanswered, Alone, FreshSongs, Filed, Stored, Uploading, Pending
<1>6. Inserted /\ Doomed /\ Chosen /\ Rowless /\ Known /\ Covered /\ Above /\ Positive
  BY <1>2 DEF Inserted, Over, Doomed, Chosen, Rowless, Known, Covered, Above, Positive
<1>7. RowHasOriginal
  BY <1>1, <1>2 DEF RowHasOriginal, Page
<1>8. PagesDistinct
  BY <1>1, <1>2 DEF PagesDistinct
<1>9. OrphanHasCause
  BY <1>1, <1>2, NoRowAssumption DEF OrphanHasCause
<1> QED
  BY <1>4, <1>5, <1>6, <1>7, <1>8, <1>9 DEF Inv

\* A request arrives with nothing on disk, nothing listed and no number; a song
\* it is to create is nobody's.
LEMMA ArriveKeeps ==
  ASSUME Inv, NEW r \in Requests, Arrive(r)
  PROVE  Inv'
<1> USE DEF Inv, Goto, db, disk
<1>1. PICK kind \in Kinds, g \in Songs, s \in Scans :
        /\ kind \in {"create", "import"} =>
             /\ g \notin live
             /\ \A o \in Requests : req[o] # NoRow => req[o].song # g
        /\ kind = "deleteScan" => row[s] # NoRow
        /\ req' = [req EXCEPT ![r] = [kind |-> kind, song |-> g, scan |-> s]]
        /\ pc' = [pc EXCEPT ![r] = CASE kind = "create" -> "insert"
                    [] kind \in {"import", "deleteSong"} -> "charge"
                    [] kind \in {"upload", "deleteScan"} -> "gate"]
  BY DEF Arrive
<1> DEFINE new == [kind |-> kind, song |-> g, scan |-> s]
           p == CASE kind = "create" -> "insert"
                  [] kind \in {"import", "deleteSong"} -> "charge"
                  [] kind \in {"upload", "deleteScan"} -> "gate"
<1>2. /\ pc[r] = "idle" /\ req[r] = NoRow
      /\ UNCHANGED <<live, row, files, dirs, loop, number, doomed, answer>>
  BY NoRowAssumption DEF Arrive, Routed, PlacesOf, Asked, Kinds
<1>3. new \in Asked /\ new.kind = kind /\ new.song = g /\ new.scan = s
  BY DEF Asked
<1>4. /\ p \in PlacesOf(kind) \cap {"insert", "charge", "gate"}
      /\ p = "insert" => kind = "create"
      /\ p = "gate" => kind \notin {"create", "import"}
  BY DEF PlacesOf, Kinds
<1>5. req' = [req EXCEPT ![r] = new] /\ pc' = [pc EXCEPT ![r] = p]
  BY <1>1
<1> HIDE DEF new, p
<1>6. TypeOK'
  BY <1>2, <1>3, <1>4, <1>5 DEF TypeOK
<1>7. /\ req'[r] = new /\ pc'[r] = p
      /\ \A q \in Requests \ {r} : req'[q] = req[q] /\ pc'[q] = pc[q]
  BY <1>5 DEF TypeOK
<1>8. \A q \in Requests \ {r} : pc[q] # "idle" => req[q] \in Asked /\ req[q] # NoRow
  BY NoRowAssumption DEF Routed
<1>9. Routed' /\ Unanswered'
  BY <1>2, <1>3, <1>4, <1>7 DEF Routed, Unanswered
<1>10. r \notin files
  BY <1>2 DEF Filed, Uploading
<1>11. Alone'
  BY <1>2, <1>3, <1>4, <1>7 DEF Alone, Uploading, Uploads
<1>12. FreshSongs'
  <2> SUFFICES ASSUME NEW q \in Requests, Pending(q)'
               PROVE  /\ req'[q].song \notin live'
                      /\ \A t \in Requests \ {q} : pc'[t] # "idle" /\ req'[t].song = req'[q].song =>
                           /\ t \notin files'
                           /\ req'[t].kind \notin {"create", "import"}
                           /\ req'[t].kind = "upload" => pc'[t] \in {"gate", "done", "died"}
    BY DEF FreshSongs
  <2>1. CASE q = r
    <3>1. kind \in {"create", "import"}
      BY <2>1, <1>3, <1>7 DEF Pending
    <3>2. \A t \in Requests \ {r} : pc[t] # "idle" => req[t].song # g
      BY <3>1, <1>1, <1>8
    <3> QED
      BY <2>1, <3>1, <3>2, <1>1, <1>2, <1>3, <1>7
  <2>2. CASE q # r
    <3>1. Pending(q) /\ req'[q] = req[q] /\ pc[q] # "idle"
      BY <2>2, <1>7 DEF Pending
    <3>2. kind \in {"create", "import"} => req[q].song # g
      BY <3>1, <2>2, <1>1, <1>8
    <3>3. kind = "upload" => p = "gate"
      BY DEF p
    <3> QED
      BY <2>2, <3>1, <3>2, <3>3, <1>2, <1>3, <1>7, <1>10 DEF FreshSongs
  <2> QED
    BY <2>1, <2>2
<1>13. Filed' /\ Stored'
  BY <1>2, <1>3, <1>4, <1>7, <1>10 DEF Filed, Stored, Uploading, Uploads
<1>14. \A t \in Scans : Over(t) => t # r /\ Over(t)'
  BY <1>2, <1>7 DEF Over
<1>15. Inserted'
  BY <1>2, <1>7, <1>14 DEF Inserted
<1>16. doomed[r] = {}
  BY <1>2 DEF Doomed
<1>17. \A q \in Requests : doomed[q] \subseteq Scans
  BY DEF TypeOK
<1>18. Doomed'
  BY <1>2, <1>7, <1>14, <1>16, <1>17 DEF Doomed
<1>19. Chosen' /\ Rowless'
  BY <1>2, <1>4, <1>7 DEF Chosen, Rowless
<1>20. Known'
  <2>1. kind = "deleteScan" => Over(s)
    BY <1>1 DEF Inserted
  <2>2. \A q \in Requests : pc[q] # "idle" => req[q].scan \in Scans
    BY DEF Routed, Asked
  <2> QED
    BY <1>3, <1>7, <1>14, <2>1, <2>2 DEF Known
<1>21. Covered' /\ Above' /\ Positive'
  BY <1>2, <1>3, <1>4, <1>7 DEF Covered, Above, Positive, PagesOf
<1>22. RowHasOriginal' /\ PagesDistinct'
  BY <1>2 DEF RowHasOriginal, PagesDistinct
<1>23. OrphanHasCause'
  BY <1>2, <1>7, <1>10 DEF OrphanHasCause
<1> QED
  BY <1>6, <1>9, <1>11, <1>12, <1>13, <1>15, <1>18, <1>19, <1>20, <1>21, <1>22, <1>23

\* A crash stops every handler where it is.
LEMMA CrashKeeps == Inv /\ Crash => Inv'
<1> SUFFICES ASSUME Inv, Crash PROVE Inv'
  OBVIOUS
<1> USE DEF Inv, db, disk
<1>1. /\ pc' = [r \in Requests |-> IF InFlight(r) THEN "died" ELSE pc[r]]
      /\ loop' = Nobody
      /\ UNCHANGED <<live, row, files, dirs, req, number, doomed, answer>>
  BY DEF Crash
<1>2. \A r \in Requests :
        \/ pc'[r] = pc[r] /\ pc[r] \in {"idle", "done", "died"}
        \/ pc'[r] = "died" /\ pc[r] \notin {"idle", "done", "died"}
  BY <1>1 DEF InFlight
<1>3. TypeOK'
  <2>1. \A r \in Requests : pc[r] \in {"idle", "gate", "charge", "body", "number", "mkdir", "store",
                          "insert", "cleanup", "list", "delete", "unlink",
                          "rmdir", "answer", "done", "died"}
    BY DEF TypeOK
  <2>2. pc' \in [Requests -> {"idle", "gate", "charge", "body", "number", "mkdir", "store",
                          "insert", "cleanup", "list", "delete", "unlink",
                          "rmdir", "answer", "done", "died"}]
    BY <1>1, <2>1
  <2> QED
    BY <1>1, <2>2 DEF TypeOK
<1>4. Routed' /\ Unanswered' /\ Alone' /\ FreshSongs' /\ Filed' /\ Stored'
  BY <1>1, <1>2 DEF Routed, PlacesOf, Unanswered, Alone, FreshSongs, Pending, Filed, Stored,
                    Uploading
<1>5. \A s \in Scans : Over(s) => Over(s)'
  BY <1>2 DEF Over
<1>6. Inserted' /\ Chosen' /\ Rowless' /\ Covered' /\ Above' /\ Positive'
  BY <1>1, <1>2, <1>5 DEF Inserted, Chosen, Rowless, Covered, Above, Positive
<1>7. Doomed' /\ Known'
  <2>1. \A r \in Requests : doomed[r] \subseteq Scans /\ (pc[r] # "idle" => req[r].scan \in Scans)
    BY DEF TypeOK, Routed, Asked
  <2> QED
    BY <1>1, <1>2, <1>5, <2>1 DEF Doomed, Known
<1>8. RowHasOriginal' /\ PagesDistinct'
  BY <1>1 DEF RowHasOriginal, PagesDistinct
<1>9. OrphanHasCause'
  BY <1>1, <1>2 DEF OrphanHasCause
<1> QED
  BY <1>3, <1>4, <1>6, <1>7, <1>8, <1>9

LEMMA NextInv == Inv /\ [Next]_vars => Inv'
<1> SUFFICES ASSUME Inv, [Next]_vars PROVE Inv'
  OBVIOUS
<1>1. ASSUME NEW r \in Requests, Step(r) PROVE Inv'
  BY <1>1, GateKeeps, ChargeKeeps, BodyKeeps, CreateKeeps, NumberKeeps, MakeDirKeeps, StoreKeeps,
     InsertKeeps, InsertFailsKeeps, CleanupKeeps, AnswerKeeps, DeleteScanKeeps, ListScansKeeps,
     DeleteSongKeeps, LockTimeoutKeeps, UnlinkKeeps, DeletedKeeps DEF Step
<1>2. ASSUME UNCHANGED vars PROVE Inv'
  <2>1. UNCHANGED <<live, row, files, dirs, loop, pc, req, number, doomed, answer>>
    BY <1>2 DEF vars, db, disk
  <2>2. TypeOK'
    BY <2>1 DEF Inv, TypeOK
  <2>3. Routed' /\ Unanswered' /\ Alone' /\ FreshSongs' /\ Filed' /\ Stored'
    BY <2>1 DEF Inv, Routed, Unanswered, Alone, FreshSongs, Pending, Filed, Stored, Uploading
  <2>4. Inserted' /\ Doomed' /\ Rowless' /\ Known'
    BY <2>1 DEF Inv, Inserted, Over, Doomed, Rowless, Known
  <2>5. Chosen' /\ Covered' /\ Above' /\ Positive'
    BY <2>1 DEF Inv, Chosen, Covered, Above, Positive, PagesOf, Over
  <2>6. RowHasOriginal' /\ PagesDistinct' /\ OrphanHasCause'
    BY <2>1 DEF Inv, RowHasOriginal, PagesDistinct, OrphanHasCause
  <2> QED
    BY <2>2, <2>3, <2>4, <2>5, <2>6 DEF Inv
<1> QED
  BY <1>1, <1>2, ArriveKeeps, CrashKeeps DEF Next

-----------------------------------------------------------------------------
\* The invariant of the library and its handlers holds in every run.
THEOREM Invariant == Spec => []Inv
<1> QED
  BY InitInv, NextInv, PTL DEF Spec

\* Rows, files, places and numbers keep their types.
THEOREM TypeCorrect == Spec => []TypeOK
<1>1. Inv => TypeOK
  BY DEF Inv
<1> QED
  BY <1>1, Invariant, PTL

\* No two pages of a song share a number, for every number of uploads, imports
\* and deletes in flight, although nothing in the schema forbids it.
THEOREM NumbersAreDistinct == Spec => []PagesDistinct
<1>1. Inv => PagesDistinct
  BY DEF Inv
<1> QED
  BY <1>1, Invariant, PTL

\* A listed page has its original, whatever was cleaned up, deleted or killed.
THEOREM RowsHaveOriginals == Spec => []RowHasOriginal
<1>1. Inv => RowHasOriginal
  BY DEF Inv
<1> QED
  BY <1>1, Invariant, PTL

\* A file without a row is listed for unlinking or was left in a way that is
\* known.
THEOREM OrphansAreCaused == Spec => []OrphanHasCause
<1>1. Inv => OrphanHasCause
  BY DEF Inv
<1> QED
  BY <1>1, Invariant, PTL

-----------------------------------------------------------------------------
(* Sets in the order of numbers that tell their elements apart.            *)

\* The elements of P in the order of their numbers,
Below(P, no, s) == {t \in P : no[t] <= no[s]}
Listing(P, no) ==
  [i \in 1 .. Cardinality(P) |-> CHOOSE s \in P : Cardinality(Below(P, no, s)) = i]

\* and what makes a sequence that order.
Ascending(q, P, no) ==
  /\ q \in Seq(P)
  /\ \A s \in P : \E i \in 1 .. Len(q) : q[i] = s
  /\ \A i, j \in 1 .. Len(q) : i < j => no[q[i]] < no[q[j]]

Distinct(P, no) ==
  /\ IsFiniteSet(P)
  /\ \A s \in P : no[s] \in Nat
  /\ \A s, t \in P : no[s] = no[t] => s = t

\* A number larger than another has more numbers up to it.
LEMMA BelowGrows ==
  ASSUME NEW P, NEW no, Distinct(P, no), NEW s \in P, NEW t \in P, no[s] < no[t]
  PROVE  Cardinality(Below(P, no, s)) < Cardinality(Below(P, no, t))
<1> DEFINE A == Below(P, no, s)
           B == Below(P, no, t)
<1>1. \A u \in P : no[u] \in Nat
  BY DEF Distinct
<1>2. A \in SUBSET B /\ t \in B /\ t \notin A
  BY <1>1 DEF Below
<1>3. B \in SUBSET P /\ IsFiniteSet(P)
  BY DEF Below, Distinct
<1>4. IsFiniteSet(B)
  BY <1>3, FS_Subset
<1>5. IsFiniteSet(A) /\ Cardinality(A) <= Cardinality(B) /\ Cardinality(A) # Cardinality(B)
  BY <1>2, <1>4, FS_Subset
<1>6. Cardinality(A) \in Nat /\ Cardinality(B) \in Nat
  BY <1>4, <1>5, FS_CardinalityType
<1> QED
  BY <1>5, <1>6

\* There is one at each place.
LEMMA EachPlace ==
  ASSUME NEW P, NEW no, Distinct(P, no), NEW i \in 1 .. Cardinality(P)
  PROVE  \E s \in P : /\ Cardinality(Below(P, no, s)) = i
                      /\ \A t \in P : Cardinality(Below(P, no, t)) = i => t = s
<1> DEFINE rank == [s \in P |-> Cardinality(Below(P, no, s))]
           n == Cardinality(P)
<1>1. IsFiniteSet(P) /\ n \in Nat
  BY FS_CardinalityType DEF Distinct
<1>2. ASSUME NEW s \in P PROVE rank[s] \in 1 .. n
  <2>1. Below(P, no, s) \in SUBSET P /\ s \in Below(P, no, s)
    BY DEF Below, Distinct
  <2>2. IsFiniteSet(Below(P, no, s)) /\ Cardinality(Below(P, no, s)) <= n
    BY <1>1, <2>1, FS_Subset
  <2>3. Cardinality(Below(P, no, s)) \in Nat /\ Cardinality(Below(P, no, s)) # 0
    BY <2>1, <2>2, FS_CardinalityType, FS_EmptySet
  <2> QED
    BY <1>1, <2>2, <2>3
<1>3. ASSUME NEW s \in P, NEW t \in P, rank[s] = rank[t] PROVE s = t
  <2>1. no[s] \in Nat /\ no[t] \in Nat
    BY DEF Distinct
  <2>2. rank[s] \in Nat /\ rank[t] \in Nat
    BY <1>2
  <2>3. ~ (no[s] < no[t]) /\ ~ (no[t] < no[s])
    BY <1>3, <2>2, BelowGrows
  <2> QED
    BY <2>1, <2>3 DEF Distinct
<1>4. rank \in Injection(P, 1 .. n)
  BY <1>2, <1>3 DEF Injection, IsInjective
<1>5. IsFiniteSet(1 .. n) /\ Cardinality(1 .. n) = n
  <2>1. \A b \in Int : IsFiniteSet(1 .. b) /\ Cardinality(1 .. b) = IF 1 > b THEN 0 ELSE b - 1 + 1
    BY FS_Interval
  <2> QED
    BY <1>1, <2>1
<1>6. rank \in Surjection(P, 1 .. n)
  BY <1>4, <1>5, FS_Injection
<1>7. PICK s \in P : rank[s] = i
  BY <1>6 DEF Surjection
<1> QED
  BY <1>3, <1>7

\* The listing is in order,
LEMMA ListingAscends ==
  ASSUME NEW P, NEW no, Distinct(P, no)
  PROVE  Ascending(Listing(P, no), P, no) /\ Len(Listing(P, no)) = Cardinality(P)
<1> DEFINE n == Cardinality(P)
           q == Listing(P, no)
<1>1. IsFiniteSet(P) /\ n \in Nat
  BY FS_CardinalityType DEF Distinct
<1>2. ASSUME NEW i \in 1 .. n
      PROVE  q[i] \in P /\ Cardinality(Below(P, no, q[i])) = i
  <2>1. q[i] = CHOOSE s \in P : Cardinality(Below(P, no, s)) = i
    BY DEF Listing
  <2>2. \E s \in P : Cardinality(Below(P, no, s)) = i
    BY EachPlace
  <2> QED
    BY <2>1, <2>2
<1>3. q \in Seq(P) /\ Len(q) = n
  <2>1. q \in [1 .. n -> P]
    BY <1>2 DEF Listing
  <2> QED
    BY <1>1, <2>1
<1>4. ASSUME NEW s \in P PROVE \E i \in 1 .. Len(q) : q[i] = s
  <2> DEFINE i == Cardinality(Below(P, no, s))
  <2>1. Below(P, no, s) \in SUBSET P /\ s \in Below(P, no, s)
    BY DEF Below, Distinct
  <2>2. IsFiniteSet(Below(P, no, s)) /\ i <= n
    BY <1>1, <2>1, FS_Subset
  <2>3. i \in Nat /\ i # 0
    BY <2>1, <2>2, FS_CardinalityType, FS_EmptySet
  <2>4. i \in 1 .. n
    BY <1>1, <2>2, <2>3
  <2>5. PICK t \in P : \A u \in P : Cardinality(Below(P, no, u)) = i => u = t
    BY <2>4, EachPlace
  <2>6. q[i] = s
    BY <1>2, <2>4, <2>5
  <2> QED
    BY <1>3, <2>4, <2>6
<1>5. ASSUME NEW i \in 1 .. n, NEW j \in 1 .. n, i < j PROVE no[q[i]] < no[q[j]]
  <2>1. q[i] \in P /\ q[j] \in P /\ no[q[i]] \in Nat /\ no[q[j]] \in Nat
    BY <1>2 DEF Distinct
  <2>2. /\ Cardinality(Below(P, no, q[i])) = i
        /\ Cardinality(Below(P, no, q[j])) = j
    BY <1>2
  <2>3. ~ (no[q[j]] < no[q[i]])
    BY <1>5, <2>1, <2>2, BelowGrows
  <2>4. no[q[i]] # no[q[j]]
    <3>1. no[q[i]] = no[q[j]] => q[i] = q[j]
      BY <2>1 DEF Distinct
    <3> QED
      BY <1>5, <2>2, <3>1
  <2> QED
    BY <2>1, <2>3, <2>4
<1> QED
  BY <1>3, <1>4, <1>5 DEF Ascending

\* and nothing else is.
LEMMA OnlyListing ==
  ASSUME NEW P, NEW no, Distinct(P, no), NEW q, Ascending(q, P, no)
  PROVE  q = Listing(P, no)
<1> DEFINE n == Len(q)
<1>1. n \in Nat /\ q \in [1 .. n -> P] /\ \A u \in P : no[u] \in Nat
  BY LenProperties DEF Ascending, Distinct
<1>2. ASSUME NEW i \in 1 .. n, NEW j \in 1 .. n PROVE no[q[j]] <= no[q[i]] <=> j <= i
  <2>1. no[q[i]] \in Nat /\ no[q[j]] \in Nat
    BY <1>1
  <2>2. i < j => no[q[i]] < no[q[j]]
    BY DEF Ascending
  <2>3. j < i => no[q[j]] < no[q[i]]
    BY DEF Ascending
  <2> QED
    BY <1>1, <2>1, <2>2, <2>3
<1>3. ASSUME NEW i \in 1 .. n PROVE Cardinality(Below(P, no, q[i])) = i
  <2> DEFINE f == [j \in 1 .. i |-> q[j]]
  <2>1. \A j \in 1 .. i : j \in 1 .. n
    BY <1>1
  <2>2. f \in [1 .. i -> Below(P, no, q[i])]
    BY <1>1, <1>2, <2>1 DEF Below
  <2>3. \A j, k \in 1 .. i : f[j] = f[k] => j = k
    <3> SUFFICES ASSUME NEW j \in 1 .. i, NEW k \in 1 .. i, q[j] = q[k] PROVE j = k
      OBVIOUS
    <3>1. (no[q[j]] <= no[q[k]] <=> j <= k) /\ (no[q[k]] <= no[q[j]] <=> k <= j)
      BY <1>2, <2>1
    <3>2. no[q[j]] \in Nat /\ no[q[j]] = no[q[k]]
      BY <1>1, <2>1
    <3> QED
      BY <3>1, <3>2
  <2>4. ASSUME NEW t \in Below(P, no, q[i]) PROVE \E j \in 1 .. i : f[j] = t
    <3>1. t \in P /\ no[t] <= no[q[i]]
      BY DEF Below
    <3>2. PICK j \in 1 .. n : q[j] = t
      BY <3>1 DEF Ascending
    <3>3. j <= i
      BY <1>2, <3>1, <3>2
    <3> QED
      BY <1>1, <3>2, <3>3
  <2>5. f \in Bijection(1 .. i, Below(P, no, q[i]))
    BY <2>2, <2>3, <2>4 DEF Bijection, Injection, IsInjective, Surjection
  <2>6. IsFiniteSet(1 .. i) /\ Cardinality(1 .. i) = i
    <3>1. \A b \in Int : IsFiniteSet(1 .. b) /\ Cardinality(1 .. b) = IF 1 > b THEN 0 ELSE b - 1 + 1
      BY FS_Interval
    <3> QED
      BY <1>1, <3>1
  <2> QED
    BY <2>5, <2>6, FS_Bijection DEF ExistsBijection
<1>4. Cardinality(P) = n
  <2>1. \A i, j \in 1 .. n : q[i] = q[j] => i = j
    BY <1>3
  <2>2. q \in Bijection(1 .. n, P)
    BY <1>1, <2>1 DEF Ascending, Bijection, Injection, IsInjective, Surjection
  <2>3. IsFiniteSet(1 .. n) /\ Cardinality(1 .. n) = n
    <3>1. \A b \in Int : IsFiniteSet(1 .. b) /\ Cardinality(1 .. b) = IF 1 > b THEN 0 ELSE b - 1 + 1
      BY FS_Interval
    <3> QED
      BY <1>1, <3>1
  <2> QED
    BY <2>2, <2>3, FS_Bijection DEF ExistsBijection
<1>5. ASSUME NEW i \in 1 .. n PROVE (CHOOSE s \in P : Cardinality(Below(P, no, s)) = i) = q[i]
  <2>1. q[i] \in P /\ Cardinality(Below(P, no, q[i])) = i
    BY <1>1, <1>3
  <2>2. \A s \in P : Cardinality(Below(P, no, s)) = i => s = q[i]
    <3> SUFFICES ASSUME NEW s \in P, Cardinality(Below(P, no, s)) = i PROVE s = q[i]
      OBVIOUS
    <3>1. PICK j \in 1 .. n : q[j] = s
      BY DEF Ascending
    <3> QED
      BY <1>3, <3>1
  <2> QED
    BY <2>1, <2>2
<1>6. q = [i \in 1 .. n |-> q[i]]
  BY <1>1
<1>7. q = [i \in 1 .. n |-> CHOOSE s \in P : Cardinality(Below(P, no, s)) = i]
  BY <1>5, <1>6
<1> QED
  BY <1>4, <1>7 DEF Listing

\* With a last element it is in order again,
LEMMA AppendAscends ==
  ASSUME NEW P, NEW no, NEW q, Ascending(q, P, no), NEW x, NEW new,
         \A s \in P : new[s] = no[s] /\ new[s] < new[x], x \notin P
  PROVE  Ascending(Append(q, x), P \cup {x}, new)
<1> DEFINE p == Append(q, x)
           n == Len(q)
<1>1. q \in Seq(P \cup {x})
  BY SeqMonotonic DEF Ascending
<1>2. /\ p \in Seq(P \cup {x}) /\ Len(p) = n + 1 /\ n \in Nat
      /\ \A i \in 1 .. n : p[i] = q[i] /\ q[i] \in P
      /\ p[n + 1] = x
  BY <1>1, AppendProperties, LenProperties, ElementOfSeq DEF Ascending
<1>3. ASSUME NEW s \in P \cup {x} PROVE \E i \in 1 .. n + 1 : p[i] = s
  <2>1. CASE s = x
    BY <1>2, <2>1
  <2>2. CASE s # x
    <3>1. PICK i \in 1 .. n : q[i] = s
      BY <2>2 DEF Ascending
    <3> QED
      BY <1>2, <3>1
  <2> QED
    BY <2>1, <2>2
<1>4. ASSUME NEW i \in 1 .. n + 1, NEW j \in 1 .. n + 1, i < j PROVE new[p[i]] < new[p[j]]
  <2>1. i \in 1 .. n
    BY <1>2, <1>4
  <2>2. CASE j = n + 1
    BY <1>2, <2>1, <2>2
  <2>3. CASE j # n + 1
    <3>1. j \in 1 .. n
      BY <1>2, <2>3
    <3>2. no[q[i]] < no[q[j]]
      BY <1>4, <2>1, <3>1 DEF Ascending
    <3> QED
      BY <1>2, <2>1, <3>1, <3>2
  <2> QED
    BY <2>2, <2>3
<1> HIDE DEF p
<1>5. \A s \in P \cup {x} : \E i \in 1 .. Len(p) : p[i] = s
  BY <1>2, <1>3
<1>6. \A i, j \in 1 .. Len(p) : i < j => new[p[i]] < new[p[j]]
  BY <1>2, <1>4
<1>7. Ascending(p, P \cup {x}, new)
  BY <1>2, <1>5, <1>6 DEF Ascending
<1> QED
  BY <1>7 DEF p

\* and so it is without one.
LEMMA RemoveAscends ==
  ASSUME NEW P, NEW no, Distinct(P, no), NEW q, Ascending(q, P, no), NEW k \in 1 .. Len(q)
  PROVE  Ascending(RemoveAt(q, k), P \ {q[k]}, no)
<1> DEFINE n == Len(q)
           p == RemoveAt(q, k)
           a == SubSeq(q, 1, k - 1)
           b == SubSeq(q, k + 1, n)
           R == P \ {q[k]}
<1>1. n \in Nat /\ \A i \in 1 .. n : q[i] \in P
  BY LenProperties, ElementOfSeq DEF Ascending
<1>11. ASSUME NEW i \in 1 .. n, NEW j \in 1 .. n, q[i] = q[j] PROVE i = j
  <2>1. no[q[i]] \in Nat /\ no[q[i]] = no[q[j]]
    BY <1>1, <1>11 DEF Distinct
  <2>2. (i < j => no[q[i]] < no[q[j]]) /\ (j < i => no[q[j]] < no[q[i]])
    BY DEF Ascending
  <2> QED
    BY <1>1, <2>1, <2>2
<1>2. a \in Seq(R) /\ Len(a) = k - 1 /\ \A i \in 1 .. k - 1 : a[i] = q[i]
  <2>1. \A i \in 1 .. k - 1 : q[i] \in R
    BY <1>1, <1>11
  <2>2. 1 \in Int /\ k - 1 \in Int
    BY <1>1
  <2>3. /\ a \in Seq(R) /\ Len(a) = (IF 1 <= k - 1 THEN (k - 1) - 1 + 1 ELSE 0)
        /\ \A i \in 1 .. (k - 1) - 1 + 1 : a[i] = q[1 + i - 1]
    BY <2>1, <2>2, SubSeqProperties
  <2> QED
    BY <1>1, <2>3
<1>3. b \in Seq(R) /\ Len(b) = n - k /\ \A i \in 1 .. n - k : b[i] = q[k + i]
  <2>1. \A i \in k + 1 .. n : q[i] \in R
    BY <1>1, <1>11
  <2>2. k + 1 \in Int /\ n \in Int
    BY <1>1
  <2>3. /\ b \in Seq(R) /\ Len(b) = (IF k + 1 <= n THEN n - (k + 1) + 1 ELSE 0)
        /\ \A i \in 1 .. n - (k + 1) + 1 : b[i] = q[(k + 1) + i - 1]
    BY <2>1, <2>2, SubSeqProperties
  <2> QED
    BY <1>1, <2>3
<1>4. p = a \o b
  BY DEF RemoveAt
<1> HIDE DEF p, a, b
<1>5. /\ p \in Seq(R) /\ Len(p) = n - 1
      /\ \A i \in 1 .. n - 1 : p[i] = IF i < k THEN q[i] ELSE q[i + 1]
  <2>1. /\ p \in Seq(R) /\ Len(p) = Len(a) + Len(b)
        /\ \A i \in 1 .. Len(a) + Len(b) : p[i] = IF i <= Len(a) THEN a[i] ELSE b[i - Len(a)]
    <3> HIDE DEF R
    <3>1. a \in Seq(R) /\ b \in Seq(R)
      BY <1>2, <1>3
    <3> QED
      BY <1>4, <3>1, ConcatProperties
  <2>2. Len(p) = n - 1 /\ Len(a) = k - 1 /\ Len(a) + Len(b) = n - 1
    BY <1>1, <1>2, <1>3, <2>1
  <2>3. ASSUME NEW i \in 1 .. n - 1 PROVE p[i] = IF i < k THEN q[i] ELSE q[i + 1]
    <3>1. p[i] = IF i <= k - 1 THEN a[i] ELSE b[i - (k - 1)]
      BY <2>1, <2>2
    <3>2. CASE i < k
      BY <1>1, <1>2, <3>1, <3>2
    <3>3. CASE ~ (i < k)
      <4>1. i - (k - 1) \in 1 .. n - k /\ k + (i - (k - 1)) = i + 1
        BY <1>1, <3>3
      <4> QED
        BY <1>1, <1>3, <3>1, <3>3, <4>1
    <3> QED
      BY <3>2, <3>3
  <2> QED
    BY <2>1, <2>2, <2>3
<1>6. ASSUME NEW s \in R PROVE \E i \in 1 .. n - 1 : p[i] = s
  <2>1. PICK i \in 1 .. n : q[i] = s
    BY DEF Ascending
  <2>2. i # k
    BY <2>1
  <2>3. CASE i < k
    BY <1>1, <1>5, <2>1, <2>3
  <2>4. CASE i > k
    <3>1. i - 1 \in 1 .. n - 1 /\ ~ (i - 1 < k) /\ (i - 1) + 1 = i
      BY <1>1, <2>4
    <3> QED
      BY <1>5, <2>1, <3>1
  <2> QED
    BY <1>1, <2>2, <2>3, <2>4
<1>7. ASSUME NEW i \in 1 .. n - 1, NEW j \in 1 .. n - 1, i < j PROVE no[p[i]] < no[p[j]]
  <2> DEFINE at(m) == IF m < k THEN m ELSE m + 1
  <2>1. at(i) \in 1 .. n /\ at(j) \in 1 .. n /\ at(i) < at(j)
    BY <1>1, <1>7
  <2>2. p[i] = q[at(i)] /\ p[j] = q[at(j)]
    BY <1>5
  <2> QED
    BY <2>1, <2>2 DEF Ascending
<1>8. \A s \in R : \E i \in 1 .. Len(p) : p[i] = s
  BY <1>5, <1>6
<1>9. \A i, j \in 1 .. Len(p) : i < j => no[p[i]] < no[p[j]]
  BY <1>5, <1>7
<1>10. Ascending(p, R, no)
  BY <1>5, <1>8, <1>9 DEF Ascending
<1> QED
  BY <1>10 DEF p

\* The order is all that counts of the numbers.
LEMMA Reordered ==
  ASSUME NEW P, NEW no, NEW q, Ascending(q, P, no), NEW new,
         \A s, t \in P : no[s] < no[t] => new[s] < new[t]
  PROVE  Ascending(q, P, new)
<1>1. \A i \in 1 .. Len(q) : q[i] \in P
  BY ElementOfSeq DEF Ascending
<1> QED
  BY <1>1 DEF Ascending

-----------------------------------------------------------------------------
(* The songs as sequences of pages.                                        *)

\* The numbers of a song's pages.
Nos(g) == [s \in PagesOf(g) |-> row[s].no]

LEMMA BookListed ==
  TypeOK /\ PagesDistinct =>
    \A g \in Songs : /\ Distinct(PagesOf(g), Nos(g))
                      /\ Book[g] = Listing(PagesOf(g), Nos(g))
                      /\ Ascending(Book[g], PagesOf(g), Nos(g))
<1> SUFFICES ASSUME TypeOK, PagesDistinct, NEW g \in Songs
             PROVE  /\ Distinct(PagesOf(g), Nos(g))
                    /\ Book[g] = Listing(PagesOf(g), Nos(g))
                    /\ Ascending(Book[g], PagesOf(g), Nos(g))
  OBVIOUS
<1>1. PagesOf(g) \in SUBSET Scans
  BY DEF PagesOf
<1>2. IsFiniteSet(PagesOf(g))
  BY <1>1, ScansAssumption, FS_Subset
<1>3. \A s \in PagesOf(g) : Nos(g)[s] \in Nat
  BY PagesFinite DEF Nos
<1>4. ASSUME NEW s \in PagesOf(g), NEW t \in PagesOf(g), Nos(g)[s] = Nos(g)[t] PROVE s = t
  <2>1. row[s] \in Page /\ row[t] \in Page /\ row[s].no = row[t].no
    BY <1>4, PagesFinite DEF Nos
  <2>2. row[s].song = row[t].song /\ row[s] # NoRow /\ row[t] # NoRow
    BY DEF PagesOf
  <2>3. row[s] = row[t]
    BY <2>1, <2>2 DEF Page
  <2> QED
    BY <1>1, <2>2, <2>3 DEF PagesDistinct
<1>5. Distinct(PagesOf(g), Nos(g))
  BY <1>2, <1>3, <1>4 DEF Distinct
<1>6. Book[g] = Listing(PagesOf(g), Nos(g))
  <2>1. \A s \in PagesOf(g) :
          {t \in PagesOf(g) : row[t].no <= row[s].no} = Below(PagesOf(g), Nos(g), s)
    BY DEF Below, Nos
  <2>2. Book[g] = InOrder(PagesOf(g))
    BY DEF Book
  <2>3. ASSUME NEW i \in 1 .. Cardinality(PagesOf(g))
        PROVE  (CHOOSE s \in PagesOf(g) :
                  Cardinality({t \in PagesOf(g) : row[t].no <= row[s].no}) = i)
               = CHOOSE s \in PagesOf(g) : Cardinality(Below(PagesOf(g), Nos(g), s)) = i
    <3>1. \A s : (s \in PagesOf(g) /\ Cardinality({t \in PagesOf(g) : row[t].no <= row[s].no}) = i)
            <=> (s \in PagesOf(g) /\ Cardinality(Below(PagesOf(g), Nos(g), s)) = i)
      BY <2>1
    <3> QED
      BY <3>1
  <2> QED
    BY <2>2, <2>3 DEF InOrder, Listing
<1> QED
  BY <1>5, <1>6, ListingAscends

\* The same after a step.
LEMMA BookListedNext ==
  (TypeOK /\ PagesDistinct)' =>
    (\A g \in Songs : /\ Distinct(PagesOf(g), Nos(g))
                       /\ Book[g] = Listing(PagesOf(g), Nos(g))
                       /\ Ascending(Book[g], PagesOf(g), Nos(g)))'
BY BookListed, PTL

\* A song whose pages keep their order is the sequence it was.
LEMMA SameBook ==
  ASSUME Inv, Inv', NEW g \in Songs, PagesOf(g)' = PagesOf(g),
         \A s, t \in PagesOf(g) : row[s].no < row[t].no => row'[s].no < row'[t].no
  PROVE  Book'[g] = Book[g]
<1>1. Ascending(Book[g], PagesOf(g), Nos(g))
  BY BookListed DEF Inv
<1>2. \A s, t \in PagesOf(g) : Nos(g)[s] < Nos(g)[t] => Nos(g)'[s] < Nos(g)'[t]
  BY DEF Nos
<1>3. Ascending(Book[g], PagesOf(g), Nos(g)')
  BY <1>1, <1>2, Reordered
<1>4. Distinct(PagesOf(g)', Nos(g)') /\ Book'[g] = Listing(PagesOf(g)', Nos(g)')
  BY BookListedNext DEF Inv
<1> QED
  BY <1>3, <1>4, OnlyListing

\* A page to be deleted is of the song it was looked up with.
Aimed ==
  \A r \in Requests :
    pc[r] # "idle" /\ req[r].kind = "deleteScan" /\ row[req[r].scan] # NoRow
      => row[req[r].scan].song = req[r].song

LEMMA RowSteps ==
  ASSUME Inv, [Next]_vars
  PROVE  \/ UNCHANGED row
         \/ \E r \in Requests : Insert(r) \/ DeleteScan(r) \/ DeleteSong(r)
<1>1. ASSUME NEW r \in Requests, Step(r)
      PROVE  UNCHANGED row \/ Insert(r) \/ DeleteScan(r) \/ DeleteSong(r)
  BY <1>1 DEF Step, Gate, Charge, Body, Create, Number, MakeDir, Store, InsertFails, Cleanup,
              Answer, ListScans, LockTimeout, Unlink, Deleted, db
<1>2. ASSUME NEW r \in Requests, Arrive(r) PROVE UNCHANGED row
  BY <1>2 DEF Arrive, db
<1>3. Crash => UNCHANGED row
  BY DEF Crash, db
<1>4. UNCHANGED vars => UNCHANGED row
  BY DEF vars, db
<1> QED
  BY <1>1, <1>2, <1>3, <1>4 DEF Next

LEMMA AimedInit == Init => Aimed
<1>1. Init => \A r \in Requests : pc[r] = "idle"
  BY DEF Init
<1> QED
  BY <1>1 DEF Aimed

LEMMA AimedKept ==
  ASSUME Inv, Inv', Aimed, [Next]_vars
  PROVE  Aimed'
<1> SUFFICES ASSUME NEW q \in Requests, pc'[q] # "idle", req'[q].kind = "deleteScan",
                    row'[req'[q].scan] # NoRow
             PROVE  row'[req'[q].scan].song = req'[q].song
  BY DEF Aimed
<1>1. CASE \E r \in Requests : Arrive(r)
  <2>1. PICK r \in Requests : Arrive(r)
    BY <1>1
  <2>2. UNCHANGED row
    BY <2>1 DEF Arrive, db
  <2>3. CASE q = r
    <3>1. PICK kind \in Kinds, g \in Songs, s \in Scans :
            /\ kind = "deleteScan" => row[s] # NoRow /\ row[s].song = g
            /\ req' = [req EXCEPT ![r] = [kind |-> kind, song |-> g, scan |-> s]]
      BY <2>1 DEF Arrive
    <3>2. req'[q] = [kind |-> kind, song |-> g, scan |-> s]
      <4>1. req \in [Requests -> Asked \cup {NoRow}]
        BY DEF Inv, TypeOK
      <4> QED
        BY <2>3, <3>1, <4>1
    <3> QED
      BY <2>2, <3>1, <3>2
  <2>4. CASE q # r
    <3>1. req'[q] = req[q] /\ pc'[q] = pc[q]
      <4>1. /\ \E x : req' = [req EXCEPT ![r] = x]
            /\ \E p : pc' = [pc EXCEPT ![r] = p]
        BY <2>1 DEF Arrive, Goto
      <4>2. DOMAIN req = Requests /\ DOMAIN pc = Requests
        BY DEF Inv, TypeOK
      <4> QED
        BY <2>4, <4>1, <4>2
    <3> QED
      BY <2>2, <3>1 DEF Aimed
  <2> QED
    BY <2>3, <2>4
<1>2. CASE ~ (\E r \in Requests : Arrive(r))
  <2>1. req' = req /\ pc[q] # "idle"
    <3>1. ASSUME NEW r \in Requests, Step(r) PROVE req' = req
      BY <3>1 DEF Step, Gate, Charge, Body, Create, Number, MakeDir, Store, Insert, InsertFails,
                  Cleanup, Answer, DeleteScan, ListScans, DeleteSong, LockTimeout, Unlink, Deleted
    <3>2. (Crash => req' = req) /\ (UNCHANGED vars => req' = req)
      BY DEF Crash, vars
    <3>3. req' = req
      BY <1>2, <3>1, <3>2 DEF Next
    <3>4. req'[q] \in Asked
      BY DEF Inv, Routed
    <3> QED
      BY <3>3, <3>4, NoRowAssumption DEF Inv, Routed, PlacesOf, Asked, Kinds
  <2>2. req[q] \in Asked /\ req[q].scan \in Scans /\ Over(req[q].scan)
    BY <2>1 DEF Inv, Routed, Known, Asked
  <2>3. row[req[q].scan] # NoRow => row[req[q].scan].song = req[q].song
    BY <2>1 DEF Aimed
  <2>4. CASE UNCHANGED row
    BY <2>1, <2>3, <2>4
  <2>5. ASSUME NEW r \in Requests, Insert(r) PROVE row'[req[q].scan] = row[req[q].scan]
    <3>1. req[q].scan # r
      BY <2>2, <2>5 DEF Insert, At, Over
    <3>2. DOMAIN row = Scans /\ \E x : row' = [row EXCEPT ![r] = x]
      BY <2>5 DEF Insert, Inv, TypeOK
    <3> QED
      BY <2>2, <3>1, <3>2
  <2>6. ASSUME NEW r \in Requests, DeleteScan(r)
        PROVE  row[req[q].scan] # NoRow /\ row'[req[q].scan].song = row[req[q].scan].song
    <3>1. req[r].song \in Songs /\ req[r].scan \in Scans /\ row' = Renumbered(req[r].song, req[r].scan)
      BY <2>6 DEF DeleteScan, At, Inv, Routed, Asked
    <3> QED
      BY <2>1, <2>2, <3>1, RenumberedPages DEF Inv
  <2>7. ASSUME NEW r \in Requests, DeleteSong(r) PROVE row'[req[q].scan] = row[req[q].scan]
    BY <2>1, <2>2, <2>7 DEF DeleteSong
  <2> QED
    BY <2>1, <2>3, <2>4, <2>5, <2>6, <2>7, RowSteps
<1> QED
  BY <1>1, <1>2

\* Songs whose rows a step leaves alone.
LEMMA OtherBooks ==
  ASSUME Inv, Inv', NEW g \in Songs, NEW X, X \cap PagesOf(g) = {},
         \A s \in Scans \ X : row'[s] = row[s],
         \A s \in X : row'[s] # NoRow => row'[s].song # g
  PROVE  Book'[g] = Book[g]
<1>1. PagesOf(g)' = PagesOf(g)
  BY DEF PagesOf
<1>2. \A s \in PagesOf(g) : row'[s] = row[s]
  BY DEF PagesOf
<1> QED
  BY <1>1, <1>2, SameBook

\* A step that changes one song's sequence.
LEMMA OneBook ==
  ASSUME NEW g \in Songs, NEW x, \A h \in Songs \ {g} : Book'[h] = Book[h], Book'[g] = x
  PROVE  Book' = [Book EXCEPT ![g] = x]
BY DEF Book

\* An upload's page becomes the last of its song.
LEMMA InsertAddsLast ==
  ASSUME Inv, Inv', NEW r \in Requests, Insert(r), NEW g \in Songs, g = req[r].song
  PROVE  Abstract!AddLast(g)
<1> DEFINE page == [song |-> g, no |-> IF req[r].kind = "import" THEN 1 ELSE number[r]]
<1>1. /\ g \in Songs /\ r \in Scans /\ row' = [row EXCEPT ![r] = page]
      /\ row \in [Scans -> Page \cup {NoRow}] /\ pc[r] = "insert" /\ req[r].kind \in Uploads
  BY DEF Insert, At, Inv, Routed, Asked, Scans, TypeOK
<1>2. page \in Page /\ page # NoRow
  BY <1>1, NumberPositive, NoRowAssumption DEF Page, Uploads
<1> HIDE DEF page
<1>3. row[r] = NoRow
  BY <1>1 DEF Inv, Inserted, Over
<1>4. row'[r] = page /\ \A s \in Scans \ {r} : row'[s] = row[s]
  BY <1>1
<1>5. page.song = g /\ \A s \in PagesOf(g) : row[s].no < page.no
  <2>1. CASE req[r].kind = "import"
    <3>1. g \notin live
      BY <1>1, <2>1 DEF Inv, FreshSongs, Pending
    <3>2. PagesOf(g) = {}
      BY <3>1 DEF PagesOf, Inv, RowHasOriginal
    <3> QED
      BY <3>2 DEF page
  <2>2. CASE req[r].kind = "upload"
    BY <1>1, <2>2 DEF Inv, Above, page
  <2> QED
    BY <1>1, <2>1, <2>2 DEF Uploads
<1>6. PagesOf(g)' = PagesOf(g) \cup {r} /\ r \notin PagesOf(g)
  BY <1>1, <1>2, <1>3, <1>4, <1>5 DEF PagesOf
<1>7. Ascending(Book[g], PagesOf(g), Nos(g))
  BY <1>1, BookListed DEF Inv
<1>8. Ascending(Append(Book[g], r), PagesOf(g) \cup {r}, Nos(g)')
  <2>1. \A s \in PagesOf(g) : Nos(g)'[s] = Nos(g)[s] /\ Nos(g)'[s] < Nos(g)'[r]
    <3>1. \A s \in PagesOf(g) : row'[s] = row[s]
      BY <1>4, <1>6 DEF PagesOf
    <3> QED
      BY <1>4, <1>5, <1>6, <3>1 DEF Nos
  <2> QED
    BY <1>6, <1>7, <2>1, AppendAscends
<1>9. Book'[g] = Append(Book[g], r)
  <2>1. Distinct(PagesOf(g)', Nos(g)') /\ Book'[g] = Listing(PagesOf(g)', Nos(g)')
    BY <1>1, BookListedNext DEF Inv
  <2> QED
    BY <1>6, <1>8, <2>1, OnlyListing
<1>10. ASSUME NEW h \in Songs \ {g} PROVE Book'[h] = Book[h]
  <2>1. {r} \cap PagesOf(h) = {}
    BY <1>3 DEF PagesOf
  <2>2. \A s \in {r} : row'[s] # NoRow => row'[s].song # h
    BY <1>4, <1>5
  <2> QED
    BY <1>4, <2>1, <2>2, OtherBooks
<1>11. Book' = [Book EXCEPT ![g] = Append(Book[g], r)]
  BY <1>1, <1>9, <1>10, OneBook
<1>12. ASSUME NEW h \in Songs PROVE ~ Contains(Book[h], r)
  <2>1. Book[h] \in Seq(PagesOf(h))
    BY BookListed DEF Inv, Ascending
  <2>2. \A i \in 1 .. Len(Book[h]) : Book[h][i] \in PagesOf(h)
    BY <2>1, ElementOfSeq
  <2>3. r \notin PagesOf(h)
    BY <1>3 DEF PagesOf
  <2> QED
    BY <2>2, <2>3 DEF Contains
<1> QED
  BY <1>1, <1>11, <1>12 DEF Abstract!AddLast, Abstract!Contains, Contains

\* A page deleted leaves the others in their order; one that is gone already
\* leaves them all.
LEMMA DeleteScanRemovesOne ==
  ASSUME Inv, Inv', Aimed, NEW r \in Requests, DeleteScan(r),
         NEW g \in Songs, g = req[r].song, NEW gone \in Scans, gone = req[r].scan
  PROVE  Abstract!RemoveOne(g) \/ Book' = Book
<1> DEFINE keep == PagesOf(g) \ {gone}
<1>1. /\ g \in Songs /\ gone \in Scans /\ row' = Renumbered(g, gone)
      /\ pc[r] = "delete" /\ req[r].kind = "deleteScan"
  BY DEF DeleteScan, At, Inv, Routed, Asked
<1>2. row[gone] # NoRow => row[gone].song = g
  BY <1>1 DEF Aimed
<1>3. /\ row'[gone] = NoRow
      /\ \A s \in Scans \ {gone} :
           IF row[s] = NoRow THEN row'[s] = NoRow
           ELSE row'[s] # NoRow /\ row'[s].song = row[s].song
  BY <1>1, RenumberedPages DEF Inv
<1>4. PagesOf(g)' = keep
  BY <1>3 DEF PagesOf
<1>5. ASSUME NEW s \in keep, NEW t \in keep, row[s].no < row[t].no PROVE row'[s].no < row'[t].no
  <2> DEFINE no == [u \in keep |-> row[u].no]
  <2>1. Distinct(keep, no)
    <3>1. Distinct(PagesOf(g), Nos(g))
      BY <1>1, BookListed DEF Inv
    <3>2. keep \in SUBSET PagesOf(g)
      OBVIOUS
    <3>3. IsFiniteSet(keep)
      BY <3>1, <3>2, FS_Subset DEF Distinct
    <3> QED
      BY <3>1, <3>3 DEF Distinct, Nos
  <2>2. \A u \in keep : row'[u].no = Cardinality(Below(keep, no, u))
    <3>1. \A u \in keep : row'[u].no = Cardinality({v \in keep : row[v].no <= row[u].no})
      BY <1>1 DEF Renumbered, PagesOf
    <3>2. \A u \in keep : {v \in keep : row[v].no <= row[u].no} = Below(keep, no, u)
      BY DEF Below
    <3> QED
      BY <3>1, <3>2
  <2>3. no[s] < no[t]
    BY <1>5
  <2> HIDE DEF keep, no
  <2> QED
    BY <2>1, <2>2, <2>3, BelowGrows
<1>6. ASSUME NEW h \in Songs \ {g} PROVE Book'[h] = Book[h]
  <2>1. (keep \cup {gone}) \cap PagesOf(h) = {}
    BY <1>2 DEF PagesOf
  <2>2. \A s \in Scans \ (keep \cup {gone}) : row'[s] = row[s]
    BY <1>1 DEF Renumbered
  <2>3. \A s \in keep \cup {gone} : row'[s] # NoRow => row'[s].song # h
    BY <1>3 DEF PagesOf
  <2> QED
    BY <2>1, <2>2, <2>3, OtherBooks
<1>7. CASE gone \notin PagesOf(g)
  <2>1. Book'[g] = Book[g]
    BY <1>1, <1>4, <1>5, <1>7, SameBook
  <2> QED
    BY <1>1, <1>6, <2>1 DEF Book
<1>8. CASE gone \in PagesOf(g)
  <2>1. Distinct(PagesOf(g), Nos(g)) /\ Ascending(Book[g], PagesOf(g), Nos(g))
    BY <1>1, BookListed DEF Inv
  <2>2. PICK k \in 1 .. Len(Book[g]) : Book[g][k] = gone
    BY <1>8, <2>1 DEF Ascending
  <2>3. Ascending(RemoveAt(Book[g], k), keep, Nos(g))
    BY <2>1, <2>2, RemoveAscends
  <2>4. Ascending(RemoveAt(Book[g], k), keep, Nos(g)')
    <3>1. \A s, t \in keep : Nos(g)[s] < Nos(g)[t] => Nos(g)'[s] < Nos(g)'[t]
      BY <1>4, <1>5 DEF Nos
    <3> QED
      BY <2>3, <3>1, Reordered
  <2>5. Distinct(PagesOf(g)', Nos(g)') /\ Book'[g] = Listing(PagesOf(g)', Nos(g)')
    BY <1>1, BookListedNext DEF Inv
  <2>6. Book'[g] = RemoveAt(Book[g], k)
    BY <1>4, <2>4, <2>5, OnlyListing
  <2>7. Book' = [Book EXCEPT ![g] = RemoveAt(Book[g], k)]
    BY <1>1, <1>6, <2>6, OneBook
  <2>8. k \in DOMAIN Book[g]
    BY <2>1, <2>2, LenProperties DEF Ascending
  <2> QED
    BY <1>1, <2>7, <2>8 DEF Abstract!RemoveOne, Abstract!RemoveAt, RemoveAt
<1> QED
  BY <1>1, <1>7, <1>8

\* A song deleted has no pages any more.
LEMMA DeleteSongClears ==
  ASSUME Inv, Inv', NEW r \in Requests, DeleteSong(r), NEW g \in Songs, g = req[r].song
  PROVE  Abstract!Clear(g)
<1>1. g \in Songs /\ row' = [s \in Scans |-> IF s \in PagesOf(g) THEN NoRow ELSE row[s]]
  BY DEF DeleteSong, At, Inv, Routed, Asked
<1>2. PagesOf(g)' = {}
  BY <1>1 DEF PagesOf
<1>3. Book'[g] = <<>>
  <2>1. Ascending(Book[g], PagesOf(g), Nos(g))'
    BY <1>1, BookListedNext DEF Inv
  <2>2. Book'[g] \in Seq({})
    BY <1>2, <2>1 DEF Ascending
  <2> QED
    BY <2>2, EmptySeq, ElementOfSeq
<1>4. ASSUME NEW h \in Songs \ {g} PROVE Book'[h] = Book[h]
  <2>1. PagesOf(g) \cap PagesOf(h) = {}
    BY DEF PagesOf
  <2>2. \A s \in Scans \ PagesOf(g) : row'[s] = row[s]
    BY <1>1
  <2>3. \A s \in PagesOf(g) : row'[s] # NoRow => row'[s].song # h
    BY <1>1 DEF PagesOf
  <2> QED
    BY <2>1, <2>2, <2>3, OtherBooks
<1>5. Book' = [Book EXCEPT ![g] = <<>>]
  BY <1>1, <1>3, <1>4, OneBook
<1> QED
  BY <1>1, <1>5 DEF Abstract!Clear

\* The library keeps the reading order: its songs, as sequences of pages, behave
\* as SongPages says, whatever uploads, deletes, renumberings and kills happen
\* (routers/scans.py and routers/songs.py).
THEOREM ReadingOrderIsKept == Spec => ImplementsSongPages
<1>1. Init => Abstract!BInit
  <2> SUFFICES ASSUME Init PROVE Book \in [Songs -> Seq(Scans)]
    BY DEF Abstract!BInit
  <2>1. TypeOK /\ PagesDistinct
    BY InitInv DEF Inv
  <2>2. ASSUME NEW g \in Songs PROVE Book[g] \in Seq(Scans)
    <3>1. Book[g] \in Seq(PagesOf(g)) /\ PagesOf(g) \subseteq Scans
      BY <2>1, BookListed DEF Ascending, PagesOf
    <3> QED
      BY <3>1, SeqMonotonic
  <2> QED
    BY <2>2 DEF Book
<1>2. Inv /\ Inv' /\ Aimed /\ [Next]_vars => [Abstract!BNext]_Book
  <2> SUFFICES ASSUME Inv, Inv', Aimed, [Next]_vars PROVE Abstract!BNext \/ Book' = Book
    OBVIOUS
  <2>1. CASE UNCHANGED row
    BY <2>1 DEF Book, InOrder, PagesOf
  <2>5. \A r \in Requests : pc[r] # "idle" => req[r].song \in Songs /\ req[r].scan \in Scans
    BY DEF Inv, Routed, Asked
  <2>6. \A r \in Requests : Insert(r) \/ DeleteScan(r) \/ DeleteSong(r) => pc[r] # "idle"
    BY DEF Insert, DeleteScan, DeleteSong, At
  <2>2. ASSUME NEW r \in Requests, Insert(r) PROVE Abstract!BNext
    BY <2>2, <2>5, <2>6, InsertAddsLast DEF Abstract!BNext
  <2>3. ASSUME NEW r \in Requests, DeleteScan(r) PROVE Abstract!BNext \/ Book' = Book
    BY <2>3, <2>5, <2>6, DeleteScanRemovesOne DEF Abstract!BNext
  <2>4. ASSUME NEW r \in Requests, DeleteSong(r) PROVE Abstract!BNext
    BY <2>4, <2>5, <2>6, DeleteSongClears DEF Abstract!BNext
  <2> QED
    BY <2>1, <2>2, <2>3, <2>4, RowSteps
<1>3. Inv /\ Inv' /\ Aimed /\ [Next]_vars => Aimed'
  BY AimedKept
<1>4. Spec => []Inv
  BY Invariant
<1>5. Spec => []Aimed
  BY <1>3, <1>4, AimedInit, PTL DEF Spec
<1> QED
  BY <1>1, <1>2, <1>4, <1>5, PTL DEF Spec, ImplementsSongPages, Abstract!BSpec
===============================================================================
