-------------------------- MODULE ExtensionsProofs --------------------------
(***************************************************************************)
(* Extensions for any registries, manifests, policies, edits and runs: the *)
(* snapshot in force is that of the disk, replaced whole and between runs, *)
(* the first denial decides, and drafts stay inside.                       *)
(***************************************************************************)
EXTENDS Extensions, WellFoundedInduction, TLAPS

(***************************************************************************)
(* Recursion over sequences: what FoldRight and FlattenSeq compute.        *)
(***************************************************************************)
\* A set of naturals has a least element.
LEMMA LeastNat ==
  ASSUME NEW T \in SUBSET Nat, T # {}
  PROVE  \E m \in T : \A k \in T : m <= k
  <1>1. PICK m \in T : \A k \in T : <<k, m>> \notin OpToRel(<, Nat)
    BY WFMin, NatLessThanWellFounded, Zenon
  <1>2. \A k \in T : ~(k < m)
    BY <1>1, Zenon DEF OpToRel
  <1> QED BY <1>2

LEMMA LeastIs ==
  ASSUME NEW T \in SUBSET Nat, T # {}
  PROVE  Min(T) \in T /\ \A k \in T : Min(T) <= k
  <1>1. \E m \in T : \A k \in T : m <= k
    BY LeastNat
  <1> QED BY <1>1, Zenon DEF Min

\* Where decisions say otherwise than "allow", and what the first of these says.
Denials(d, s) == {i \in s : d[i] # "allow"}
FirstOf(d, s) == IF Denials(d, s) = {} THEN "allow" ELSE d[Min(Denials(d, s))]
Rest(s) == s \ {Min(s)}

\* The fold over the positions of a sequence from the right.
Folded(d, n, f) ==
  f = [s \in SUBSET (1 .. n) |->
        IF s = {} THEN "allow"
        ELSE IF d[Min(s)] = "allow" THEN f[Rest(s)] ELSE d[Min(s)]]

LEMMA FirstOfRest ==
  ASSUME NEW d, NEW s \in SUBSET Nat, s # {}
  PROVE  FirstOf(d, s) = IF d[Min(s)] = "allow" THEN FirstOf(d, Rest(s)) ELSE d[Min(s)]
  <1>1. Min(s) \in s /\ \A k \in s : Min(s) <= k
    BY LeastIs
  <1>2. CASE d[Min(s)] = "allow"
    <2>1. Denials(d, s) = Denials(d, Rest(s))
      BY <1>2 DEF Denials, Rest
    <2> QED BY <1>2, <2>1 DEF FirstOf
  <1>3. CASE d[Min(s)] # "allow"
    <2>1. Min(s) \in Denials(d, s) /\ Denials(d, s) \in SUBSET Nat
      BY <1>1, <1>3 DEF Denials
    <2>2. Min(Denials(d, s)) \in s /\ Min(Denials(d, s)) <= Min(s)
      BY <2>1, LeastIs DEF Denials
    <2>3. Min(Denials(d, s)) = Min(s)
      <3>1. Min(s) \in Nat /\ Min(Denials(d, s)) \in Nat
        BY <1>1, <2>2
      <3>2. Min(s) <= Min(Denials(d, s))
        BY <1>1, <2>2
      <3> QED BY <2>2, <3>1, <3>2
    <2> QED BY <1>3, <2>1, <2>3 DEF FirstOf
  <1> QED BY <1>2, <1>3

\* A fold exists, and every fold gives the first denial.
LEMMA FoldExists ==
  ASSUME NEW d, NEW n \in Nat
  PROVE  \E f : Folded(d, n, f)
  <1> DEFINE h == [s \in SUBSET (1 .. n) |-> FirstOf(d, s)]
  <1>1. \A s \in SUBSET (1 .. n) :
          h[s] = IF s = {} THEN "allow"
                 ELSE IF d[Min(s)] = "allow" THEN h[Rest(s)] ELSE d[Min(s)]
    <2> SUFFICES ASSUME NEW s \in SUBSET (1 .. n)
                 PROVE  FirstOf(d, s) = IF s = {} THEN "allow"
                          ELSE IF d[Min(s)] = "allow" THEN FirstOf(d, Rest(s)) ELSE d[Min(s)]
      BY DEF Rest
    <2>1. CASE s = {}
      BY <2>1 DEF FirstOf, Denials
    <2>2. CASE s # {}
      <3>1. s \in SUBSET Nat
        OBVIOUS
      <3> QED BY <2>2, <3>1, FirstOfRest, Zenon
    <2> QED BY <2>1, <2>2
  <1>2. Folded(d, n, h)
    <2> HIDE DEF h
    <2>1. h = [s \in SUBSET (1 .. n) |-> h[s]]
      BY DEF h
    <2> QED BY <1>1, <2>1 DEF Folded
  <1> HIDE DEF h
  <1> QED BY <1>2

LEMMA FoldIsFirst ==
  ASSUME NEW d, NEW n \in Nat, NEW f, Folded(d, n, f)
  PROVE  f[1 .. n] = FirstOf(d, 1 .. n)
  <1> DEFINE Upper(k) == n - k + 1 .. n
             T == {k \in 0 .. n : f[Upper(k)] # FirstOf(d, Upper(k))}
  <1>1. T = {}
    <2> SUFFICES ASSUME T # {} PROVE FALSE
      OBVIOUS
    <2>1. PICK k \in T : \A j \in T : k <= j
      <3>1. T \in SUBSET Nat
        OBVIOUS
      <3> HIDE DEF T
      <3> QED BY <3>1, LeastNat
    <2>2. k \in 0 .. n /\ f[Upper(k)] # FirstOf(d, Upper(k))
      OBVIOUS
    <2>3. CASE k = 0
      <3>1. Upper(k) = {}
        BY <2>3
      <3>2. f[{}] = "allow"
        BY DEF Folded
      <3> QED BY <2>2, <3>1, <3>2 DEF FirstOf, Denials
    <2>4. CASE k # 0
      <3>1. k - 1 \in 0 .. n /\ k - 1 \notin T
        BY <2>1, <2>2, <2>4
      <3>2. f[Upper(k - 1)] = FirstOf(d, Upper(k - 1))
        BY <3>1
      <3>3. Upper(k) \in SUBSET (1 .. n) /\ n - k + 1 \in Upper(k) /\ Upper(k) \in SUBSET Nat
        BY <2>2, <2>4
      <3>4. Min(Upper(k)) = n - k + 1
        <4>1. Min(Upper(k)) \in Upper(k) /\ \A j \in Upper(k) : Min(Upper(k)) <= j
          <5> HIDE DEF Upper
          <5> QED BY <3>3, LeastIs
        <4> QED BY <2>2, <3>3, <4>1
      <3>5. Rest(Upper(k)) = Upper(k - 1)
        BY <2>2, <2>4, <3>4 DEF Rest
      <3> HIDE DEF Upper
      <3>6. f[Upper(k)] = IF d[Min(Upper(k))] = "allow" THEN f[Upper(k - 1)]
                          ELSE d[Min(Upper(k))]
        BY <3>3, <3>5 DEF Folded
      <3>7. FirstOf(d, Upper(k)) = IF d[Min(Upper(k))] = "allow" THEN FirstOf(d, Upper(k - 1))
                                   ELSE d[Min(Upper(k))]
        BY <3>3, <3>5, FirstOfRest
      <3> QED BY <2>2, <3>2, <3>6, <3>7
    <2> QED BY <2>3, <2>4
  <1>2. n \in 0 .. n /\ Upper(n) = 1 .. n
    OBVIOUS
  <1> QED BY <1>1, <1>2

\* The chain of hooks gives the decision of the first that does not allow.
LEMMA ChainIsFirst ==
  ASSUME NEW X, NEW exts \in Seq(X), NEW tool
  PROVE  BeforeToolCall(exts, tool)
           = FirstOf([i \in DOMAIN exts |-> Decision(exts[i], tool)], DOMAIN exts)
  <1> DEFINE n == Len(exts)
             d == [i \in DOMAIN exts |-> Decision(exts[i], tool)]
             chain == CHOOSE f : f = [s \in SUBSET DOMAIN exts |->
                        IF s = {} THEN "allow"
                        ELSE IF Decision(exts[Min(s)], tool) = "allow" THEN f[s \ {Min(s)}]
                             ELSE Decision(exts[Min(s)], tool)]
  <1>1. n \in Nat /\ DOMAIN exts = 1 .. n
    OBVIOUS
  <1>2. BeforeToolCall(exts, tool) = chain[DOMAIN exts]
    BY DEF BeforeToolCall, FoldRight, MapThenFoldSet
  <1>3. \A f : Folded(d, n, f) <=>
           f = [s \in SUBSET DOMAIN exts |->
                        IF s = {} THEN "allow"
                        ELSE IF Decision(exts[Min(s)], tool) = "allow" THEN f[s \ {Min(s)}]
                             ELSE Decision(exts[Min(s)], tool)]
    <2>1. \A s \in SUBSET (1 .. n) : s # {} => Min(s) \in DOMAIN exts
      <3> SUFFICES ASSUME NEW s \in SUBSET (1 .. n), s # {} PROVE Min(s) \in DOMAIN exts
        OBVIOUS
      <3>1. s \in SUBSET Nat
        BY <1>1
      <3>2. Min(s) \in s
        BY <3>1, LeastIs
      <3> QED BY <1>1, <3>2
    <2> QED BY <1>1, <2>1 DEF Folded, Rest
  <1>4. Folded(d, n, chain)
    <2> HIDE DEF d, n
    <2> QED BY <1>1, <1>3, FoldExists
  <1> HIDE DEF d, n, chain
  <1>5. chain[1 .. n] = FirstOf(d, 1 .. n)
    BY <1>1, <1>4, FoldIsFirst
  <1> QED BY <1>1, <1>2, <1>5 DEF d

\* Induction up to a bound, over a set.
LEMMA UpTo ==
  ASSUME NEW T, NEW n \in Nat, 0 \in T, \A k \in 0 .. n - 1 : k \in T => k + 1 \in T
  PROVE  0 .. n \subseteq T
  <1> DEFINE Left == (0 .. n) \ T
  <1> SUFFICES ASSUME Left # {} PROVE FALSE
    OBVIOUS
  <1>1. PICK m \in Left : \A k \in Left : m <= k
    <2>1. Left \in SUBSET Nat
      OBVIOUS
    <2> HIDE DEF Left
    <2> QED BY <2>1, LeastNat
  <1>2. m # 0 /\ m \in 0 .. n /\ m \notin T
    OBVIOUS
  <1>3. m - 1 \in 0 .. n - 1 /\ m - 1 \notin Left /\ (m - 1) + 1 = m
    BY <1>1, <1>2
  <1> QED BY <1>2, <1>3

LEMMA ConcatSets ==
  ASSUME NEW S, NEW s \in Seq(S), NEW t \in Seq(S)
  PROVE  /\ ToSet(s) \cup ToSet(t) \subseteq ToSet(s \o t)
         /\ IsInjective(s \o t) => IsInjective(s) /\ ToSet(s) \cap ToSet(t) = {}
  <1>1. /\ Len(s) \in Nat /\ Len(t) \in Nat /\ DOMAIN s = 1 .. Len(s) /\ DOMAIN t = 1 .. Len(t)
        /\ DOMAIN (s \o t) = 1 .. Len(s) + Len(t)
        /\ \A i \in DOMAIN s : (s \o t)[i] = s[i]
        /\ \A i \in DOMAIN t : (s \o t)[Len(s) + i] = t[i]
    OBVIOUS
  <1>2. /\ \A i \in DOMAIN s : i \in DOMAIN (s \o t)
        /\ \A i \in DOMAIN t : Len(s) + i \in DOMAIN (s \o t)
        /\ \A i \in DOMAIN s, j \in DOMAIN t : i # Len(s) + j
    BY <1>1
  <1>3. ToSet(s) \cup ToSet(t) \subseteq ToSet(s \o t)
    <2>1. ASSUME NEW i \in DOMAIN s PROVE s[i] \in ToSet(s \o t)
      BY <1>1, <1>2, Zenon DEF ToSet
    <2>2. ASSUME NEW i \in DOMAIN t PROVE t[i] \in ToSet(s \o t)
      BY <1>1, <1>2, Zenon DEF ToSet
    <2> QED BY <2>1, <2>2 DEF ToSet
  <1>4. ASSUME IsInjective(s \o t) PROVE IsInjective(s)
    BY <1>1, <1>2, <1>4 DEF IsInjective
  <1>5. ASSUME IsInjective(s \o t), NEW i \in DOMAIN s, NEW j \in DOMAIN t, s[i] = t[j]
        PROVE  FALSE
    BY <1>1, <1>2, <1>5 DEF IsInjective
  <1> QED BY <1>3, <1>4, <1>5 DEF ToSet

\* The concatenations of the first sequences.
Flattened(seqs, n, f) ==
  f = [i \in 1 .. n |-> IF i = 1 THEN seqs[i] ELSE f[i - 1] \o seqs[i]]

LEMMA FlatExists ==
  ASSUME NEW seqs, NEW n \in Nat
  PROVE  \E f : Flattened(seqs, n, f)
  <1> DEFINE T == {k \in Nat : \E f : Flattened(seqs, k, f)}
  <1>1. 0 \in T
    <2>1. Flattened(seqs, 0, [i \in {} |-> 0])
      BY DEF Flattened
    <2> QED BY <2>1
  <1>2. ASSUME NEW k \in 0 .. n - 1, k \in T PROVE k + 1 \in T
    <2>1. PICK f : Flattened(seqs, k, f)
      BY <1>2
    <2> DEFINE g == [i \in 1 .. k + 1 |-> IF i <= k THEN f[i]
                                          ELSE IF k = 0 THEN seqs[i] ELSE f[k] \o seqs[i]]
    <2>2. \A i \in 1 .. k + 1 : g[i] = IF i = 1 THEN seqs[i] ELSE g[i - 1] \o seqs[i]
      <3> SUFFICES ASSUME NEW i \in 1 .. k + 1
                   PROVE  g[i] = IF i = 1 THEN seqs[i] ELSE g[i - 1] \o seqs[i]
        OBVIOUS
      <3>1. CASE i <= k
        <4>1. f[i] = IF i = 1 THEN seqs[i] ELSE f[i - 1] \o seqs[i]
          <5>1. i \in 1 .. k
            BY <3>1
          <5>2. \A j \in 1 .. k : f[j] = IF j = 1 THEN seqs[j] ELSE f[j - 1] \o seqs[j]
            BY <2>1, Zenon DEF Flattened
          <5> QED BY <5>1, <5>2, Zenon
        <4>2. i # 1 => i - 1 \in 1 .. k + 1 /\ i - 1 <= k
          BY <3>1
        <4> QED BY <3>1, <4>1, <4>2
      <3>2. CASE i = k + 1
        BY <3>2
      <3> QED BY <3>1, <3>2
    <2>3. Flattened(seqs, k + 1, g)
      <3>1. g = [i \in 1 .. k + 1 |-> g[i]]
        OBVIOUS
      <3> HIDE DEF g
      <3> QED BY <2>2, <3>1 DEF Flattened
    <2> HIDE DEF g
    <2> QED BY <2>3
  <1>3. n \in T
    <2> HIDE DEF T
    <2>1. 0 .. n \subseteq T
      BY <1>1, <1>2, UpTo
    <2> QED BY <2>1
  <1> QED BY <1>3

\* Sequences whose concatenation repeats nothing have nothing in common.
LEMMA FlatApart ==
  ASSUME NEW S, NEW seqs \in Seq(Seq(S)), NEW f, Flattened(seqs, Len(seqs), f),
         Len(seqs) # 0, IsInjective(f[Len(seqs)])
  PROVE  \A i, j \in DOMAIN seqs : i # j => ToSet(seqs[i]) \cap ToSet(seqs[j]) = {}
  <1> DEFINE n == Len(seqs)
             Good(k) == /\ f[k] \in Seq(S)
                        /\ \A i \in 1 .. k : ToSet(seqs[i]) \subseteq ToSet(f[k])
                        /\ IsInjective(f[k]) =>
                             \A i, j \in 1 .. k : i < j => ToSet(seqs[i]) \cap ToSet(seqs[j]) = {}
             T == {k \in Nat : k = 0 \/ Good(k)}
  <1>1. n \in Nat /\ DOMAIN seqs = 1 .. n /\ \A i \in 1 .. n : seqs[i] \in Seq(S)
    OBVIOUS
  <1>2. \A i \in 1 .. n : f[i] = IF i = 1 THEN seqs[i] ELSE f[i - 1] \o seqs[i]
    BY DEF Flattened
  <1> HIDE DEF n
  <1>3. ASSUME NEW k \in 0 .. n - 1, k \in T PROVE k + 1 \in T
    <2>1. k + 1 \in 1 .. n /\ seqs[k + 1] \in Seq(S)
      BY <1>1
    <2>2. CASE k = 0
      <3>1. f[1] = seqs[1] /\ seqs[1] \in Seq(S)
        BY <1>2, <2>1, <2>2
      <3>2. \A i \in 1 .. 1 : i = 1
        OBVIOUS
      <3>3. Good(1)
        BY <3>1, <3>2
      <3> QED BY <2>2, <3>3
    <2>3. CASE k # 0
      <3>1. Good(k) /\ k \in Nat
        BY <1>3, <2>3
      <3>2. f[k + 1] = f[k] \o seqs[k + 1]
        <4>1. k + 1 # 1 /\ (k + 1) - 1 = k
          BY <2>3, <3>1
        <4> QED BY <1>2, <2>1, <4>1
      <3>3. /\ ToSet(f[k]) \cup ToSet(seqs[k + 1]) \subseteq ToSet(f[k + 1])
            /\ IsInjective(f[k + 1]) =>
                 IsInjective(f[k]) /\ ToSet(f[k]) \cap ToSet(seqs[k + 1]) = {}
        BY <2>1, <3>1, <3>2, ConcatSets
      <3>4. f[k + 1] \in Seq(S)
        BY <2>1, <3>1, <3>2
      <3>5. \A i \in 1 .. k + 1 : i \in 1 .. k \/ i = k + 1
        BY <3>1
      <3>6. \A i \in 1 .. k + 1 : ToSet(seqs[i]) \subseteq ToSet(f[k + 1])
        BY <3>1, <3>3, <3>5
      <3>7. ASSUME IsInjective(f[k + 1]), NEW i \in 1 .. k + 1, NEW j \in 1 .. k + 1, i < j
            PROVE  ToSet(seqs[i]) \cap ToSet(seqs[j]) = {}
        <4>1. i \in 1 .. k
          BY <3>7, <3>5, <3>1
        <4>2. CASE j \in 1 .. k
          BY <3>1, <3>3, <3>7, <4>1, <4>2
        <4>3. CASE j = k + 1
          BY <3>1, <3>3, <3>7, <4>1, <4>3
        <4> QED BY <3>5, <4>2, <4>3
      <3>8. Good(k + 1)
        BY <3>4, <3>6, <3>7
      <3>9. k + 1 \in Nat
        BY <3>1
      <3> HIDE DEF Good
      <3> QED BY <3>8, <3>9
    <2> QED BY <2>2, <2>3
  <1>4. n \in T
    <2>1. 0 \in T
      OBVIOUS
    <2> HIDE DEF T
    <2>2. 0 .. n \subseteq T
      BY <1>1, <1>3, <2>1, UpTo
    <2> QED BY <1>1, <2>2
  <1>5. Good(n)
    BY <1>1, <1>4 DEF n
  <1> SUFFICES ASSUME NEW i \in 1 .. n, NEW j \in 1 .. n, i # j
               PROVE  ToSet(seqs[i]) \cap ToSet(seqs[j]) = {}
    BY <1>1
  <1>6. i < j \/ j < i
    BY <1>1
  <1>7. IsInjective(f[n])
    BY DEF n
  <1> QED BY <1>5, <1>6, <1>7

LEMMA FlattenApart ==
  ASSUME NEW S, NEW seqs \in Seq(Seq(S)), IsInjective(FlattenSeq(seqs))
  PROVE  \A i, j \in DOMAIN seqs : i # j => ToSet(seqs[i]) \cap ToSet(seqs[j]) = {}
  <1> DEFINE flat == CHOOSE f : f = [i \in 1 .. Len(seqs) |->
                        IF i = 1 THEN seqs[i] ELSE f[i - 1] \o seqs[i]]
  <1>1. CASE Len(seqs) = 0
    BY <1>1
  <1>2. CASE Len(seqs) # 0
    <2>1. FlattenSeq(seqs) = flat[Len(seqs)]
      BY <1>2 DEF FlattenSeq
    <2>2. Flattened(seqs, Len(seqs), flat)
      <3>1. Len(seqs) \in Nat
        OBVIOUS
      <3> QED BY <3>1, FlatExists DEF Flattened
    <2> HIDE DEF flat
    <2> QED BY <1>2, <2>1, <2>2, FlatApart
  <1> QED BY <1>1, <1>2

-----------------------------------------------------------------------------
(***************************************************************************)
(* The inductive invariant.                                                *)
(***************************************************************************)
Listed == [name : STRING, path : Seq(STRING)]
Taken == [name : STRING, policy : DOMAIN PolicyText]

Home == [Dirs -> [root : {Absent, Link, "dir", "file"},
                  manifest : DOMAIN ManifestText \cup {Absent, Link, Broken},
                  main : DOMAIN PolicyText \cup {Absent, Link, Broken}]]
Drafts == [at : {"none", "leaf", "write"}, dir : Dirs \cup {"none"},
           leaf : Leaves \cup {"root", "none"},
           text : DOMAIN ManifestText \cup DOMAIN PolicyText \cup {"none"}, raced : BOOLEAN]

IsAnswer(a) == a = [tool |-> a.tool, verdict |-> a.verdict, result |-> a.result]

Types ==
    /\ dirs \in Home
    /\ draft \in Drafts
    /\ load \in [entries : Seq(Listed), done : Seq(Taken)]
    /\ run \in [exts : Seq(Taken), cancelled : BOOLEAN, calls : Nat]
    /\ active \in Seq(Taken)
    /\ stale \in BOOLEAN
    /\ IsAnswer(answer)

\* What a load has taken so far belongs, entry by entry, to the registry that
\* was listed, and is what the disk says unless the user has edited since.
LoadIsOn ==
    Loading =>
        /\ \A i, j \in DOMAIN load.entries : load.entries[i].name = load.entries[j].name => i = j
        /\ Len(load.done) <= Len(load.entries)
        /\ \A i \in DOMAIN load.done : load.done[i].name = load.entries[i].name
        /\ ~stale => /\ RegistryLoads /\ load.entries = Entries
                     /\ \A i \in DOMAIN load.done : load.done[i] = Extension(Entries[i])

\* A run keeps the snapshot in force, and there is none at any other time.
RunIsOn ==
    /\ phase # "running" => run = NoRun /\ answer = NoAnswer
    /\ phase = "running" =>
         /\ run.exts = active
         /\ answer.tool # "none" => answer.verdict = BeforeToolCall(run.exts, answer.tool)

\* A draft is written by a run, to a place of the home.  Unless the user has edited
\* since, no directory of its path is a link, nor is its leaf once that was looked at.
DraftIsOn ==
    draft # NoDraft =>
        /\ phase = "running" /\ draft.at \in {"leaf", "write"}
        /\ draft.dir \in Dirs /\ draft.leaf \in Leaves \cup {"root"}
        /\ draft.leaf = "main" => draft.text \in DOMAIN PolicyText
        /\ draft.leaf = "manifest" => draft.text \in DOMAIN ManifestText
        /\ ~draft.raced =>
             /\ top # Link
             /\ draft.leaf # "root" => dirs[draft.dir].root # Link
             /\ draft.at = "write" => dirs[draft.dir][draft.leaf] # Link

ExtensionInv ==
    Types /\ LoadIsOn /\ RunIsOn /\ DraftIsOn /\ SnapshotIsFresh /\ DraftsStayInside

LEMMA NoneAreTyped == /\ NoRun \in [exts : Seq(Taken), cancelled : BOOLEAN, calls : Nat]
                      /\ NoLoad \in [entries : Seq(Listed), done : Seq(Taken)]
                      /\ NoLoad.done = <<>>
                      /\ NoDraft \in Drafts /\ IsAnswer(NoAnswer)
  BY DEF NoRun, NoLoad, NoDraft, Drafts, NoAnswer, IsAnswer

\* What a draft came to changes nothing else of the answer.
LEMMA AnswerStays ==
  ASSUME NEW a, IsAnswer(a), NEW result
  PROVE  LET b == [a EXCEPT !.result = result]
         IN  IsAnswer(b) /\ b.tool = a.tool /\ b.verdict = a.verdict
  BY DEF IsAnswer

\* What is listed are the entries of a registry.
LEMMA EntriesListed ==
  ASSUME RegistryLoads
  PROVE  /\ Entries \in Seq(Listed)
         /\ \A i, j \in DOMAIN Entries : Entries[i].name = Entries[j].name => i = j
  <1>1. CASE registry = Absent
    BY <1>1 DEF Entries
  <1>2. CASE registry # Absent
    BY <1>2, ExtensionAssumption DEF RegistryLoads, Entries, Listed
  <1> QED BY <1>1, <1>2

\* The disk says the same as before while nobody writes to it.
LEMMA SameDisk ==
  ASSUME UNCHANGED <<registry, top, dirs>>
  PROVE  /\ Entries' = Entries /\ (RegistryLoads' <=> RegistryLoads)
         /\ \A entry : Extension(entry)' = Extension(entry)
         /\ (Accepted' <=> Accepted) /\ Candidate' = Candidate
  <1>1. Entries' = Entries /\ (RegistryLoads' <=> RegistryLoads)
    BY DEF Entries, RegistryLoads
  <1>2. \A entry : Extension(entry)' = Extension(entry) /\ (EntryLoads(entry)' <=> EntryLoads(entry))
    BY DEF Extension, EntryLoads, RootLoads, Loads, Readable
  <1>3. Candidate' = Candidate
    BY <1>1, <1>2 DEF Candidate
  <1>4. Accepted' <=> Accepted
    BY <1>1, <1>2, <1>3 DEF Accepted, Composes, Declared, Policy
  <1> QED BY <1>1, <1>2, <1>3, <1>4

-----------------------------------------------------------------------------
(***************************************************************************)
(* Loads.                                                                  *)
(***************************************************************************)
\* A load begins with no run, and nothing taken.
LEMMA LoadBegins ==
  ASSUME ExtensionInv, NEW fails \in {Starting, Reloading}, BeginLoad(fails),
         phase # "running", UNCHANGED <<disk, active, run, draft, answer>>
  PROVE  ExtensionInv'
  <1>1. /\ stale' = FALSE
        /\ RegistryLoads => load' = [entries |-> Entries, done |-> <<>>] /\ phase' = fails.during
        /\ ~RegistryLoads => load' = NoLoad /\ phase' = fails.after
    BY DEF BeginLoad
  <1>2. /\ fails.during \in {"starting", "loading"} /\ fails.after \in {"down", "idle"}
    BY DEF Starting, Reloading
  <1>3. /\ Entries' = Entries /\ (RegistryLoads' <=> RegistryLoads)
        /\ (Accepted' <=> Accepted) /\ (Accepted => RegistryLoads)
    BY SameDisk DEF disk, Accepted
  <1>4. Types'
    <2>1. load' \in [entries : Seq(Listed), done : Seq(Taken)]
      <3>1. CASE RegistryLoads
        <4>1. Entries \in Seq(Listed) /\ <<>> \in Seq(Taken)
          BY <3>1, EntriesListed
        <4>2. load' = [entries |-> Entries, done |-> <<>>]
          BY <1>1, <3>1
        <4> QED BY <4>1, <4>2
      <3>2. CASE ~RegistryLoads
        BY <1>1, <3>2, NoneAreTyped
      <3> QED BY <3>1, <3>2
    <2> QED BY <1>1, <2>1 DEF ExtensionInv, Types, disk
  <1>5. LoadIsOn'
    BY <1>1, <1>2, <1>3, EntriesListed DEF LoadIsOn, Loading
  <1>6. RunIsOn' /\ DraftIsOn'
    BY <1>1, <1>2 DEF ExtensionInv, RunIsOn, DraftIsOn
  <1>7. SnapshotIsFresh'
    BY <1>1, <1>2, <1>3 DEF SnapshotIsFresh
  <1> QED BY <1>4, <1>5, <1>6, <1>7 DEF ExtensionInv, DraftsStayInside, disk

\* A load that fails keeps the snapshot: the disk has none to take.
LEMMA LoadFails ==
  ASSUME ExtensionInv, Loading, KeepSnapshot, UNCHANGED <<disk, active, run, draft, answer, stale>>,
         ~stale => ~Accepted
  PROVE  ExtensionInv'
  <1>1. load' = NoLoad /\ phase' \in {"down", "idle"} /\ phase # "running"
    BY DEF KeepSnapshot, Loading
  <1>2. Accepted' <=> Accepted
    BY SameDisk DEF disk
  <1>3. Types'
    BY <1>1, NoneAreTyped DEF ExtensionInv, Types, disk
  <1>4. LoadIsOn' /\ RunIsOn' /\ DraftIsOn'
    BY <1>1 DEF ExtensionInv, LoadIsOn, RunIsOn, DraftIsOn, Loading
  <1>5. SnapshotIsFresh'
    BY <1>1, <1>2 DEF SnapshotIsFresh
  <1> QED BY <1>3, <1>4, <1>5 DEF ExtensionInv, DraftsStayInside, disk

LEMMA EntryOn == ASSUME ExtensionInv, LoadEntry PROVE ExtensionInv'
  <1> DEFINE k == Len(load.done) + 1
             entry == load.entries[k]
  <1>1. /\ Loading /\ Len(load.done) < Len(load.entries)
        /\ UNCHANGED <<disk, active, run, draft, answer, stale>>
        /\ IF EntryLoads(entry)
           THEN load' = [load EXCEPT !.done = Append(@, Extension(entry))] /\ phase' = phase
           ELSE KeepSnapshot
    BY DEF LoadEntry
  <1>2. /\ load.entries \in Seq(Listed) /\ load.done \in Seq(Taken)
        /\ k \in DOMAIN load.entries /\ entry \in Listed
    <2>1. load.entries \in Seq(Listed) /\ load.done \in Seq(Taken)
      BY DEF ExtensionInv, Types
    <2> QED BY <1>1, <2>1
  <1>3. CASE EntryLoads(entry)
    <2>1. Extension(entry) \in Taken /\ Extension(entry).name = entry.name
      <3>1. dirs[entry.path[2]].main \in DOMAIN PolicyText
        BY <1>3 DEF EntryLoads, Loads
      <3> QED BY <1>2, <3>1 DEF Extension, Taken, Listed
    <2> HIDE DEF entry
    <2>2. /\ load' = [load EXCEPT !.done = Append(load.done, Extension(entry))] /\ phase' = phase
          /\ load'.entries = load.entries /\ load'.done = Append(load.done, Extension(entry))
      BY <1>1, <1>3 DEF ExtensionInv, Types
    <2>3. /\ Len(load'.done) = k /\ load'.done[k] = Extension(entry)
          /\ DOMAIN load.done = 1 .. Len(load.done) /\ DOMAIN load'.done = 1 .. k
          /\ \A i \in DOMAIN load.done : load'.done[i] = load.done[i]
          /\ \A i \in DOMAIN load'.done : i \in DOMAIN load.done \/ i = k
      BY <1>2, <2>1, <2>2
    <2>4. Types'
      <3>1. load \in [entries : Seq(Listed), done : Seq(Taken)]
        BY DEF ExtensionInv, Types
      <3>2. Append(load.done, Extension(entry)) \in Seq(Taken)
        BY <1>2, <2>1
      <3>3. load' \in [entries : Seq(Listed), done : Seq(Taken)]
        BY <2>2, <3>1, <3>2
      <3> QED BY <1>1, <3>3 DEF ExtensionInv, Types, disk
    <2>5. LoadIsOn'
      <3>1. Loading' /\ Len(load'.done) <= Len(load'.entries)
        BY <1>1, <1>2, <2>2, <2>3 DEF Loading
      <3>2. \A i \in DOMAIN load'.done : load'.done[i].name = load'.entries[i].name
        BY <1>1, <2>1, <2>2, <2>3 DEF ExtensionInv, LoadIsOn, entry
      <3>3. ASSUME ~stale
            PROVE  /\ RegistryLoads' /\ load'.entries = Entries'
                   /\ \A i \in DOMAIN load'.done : load'.done[i] = Extension(Entries[i])'
        <4>1. /\ Entries' = Entries /\ (RegistryLoads' <=> RegistryLoads)
              /\ \A e : Extension(e)' = Extension(e)
          BY <1>1, SameDisk DEF disk
        <4>2. RegistryLoads /\ load.entries = Entries /\ entry = Entries[k]
              /\ \A i \in DOMAIN load.done : load.done[i] = Extension(Entries[i])
          BY <1>1, <3>3 DEF ExtensionInv, LoadIsOn, entry
        <4>3. \A i \in DOMAIN load'.done : load'.done[i] = Extension(Entries[i])
          BY <2>3, <4>2
        <4>4. \A i : Extension(Entries[i])' = Extension(Entries[i])
          BY <1>1, <4>1 DEF Extension, disk
        <4> QED BY <2>2, <4>1, <4>2, <4>3, <4>4
      <3> QED BY <1>1, <2>2, <3>1, <3>2, <3>3 DEF ExtensionInv, LoadIsOn
    <2>6. RunIsOn' /\ DraftIsOn' /\ SnapshotIsFresh'
      BY <1>1, <2>2 DEF ExtensionInv, RunIsOn, DraftIsOn, SnapshotIsFresh, Loading
    <2> QED BY <1>1, <2>4, <2>5, <2>6 DEF ExtensionInv, DraftsStayInside, disk
  <1>4. CASE ~EntryLoads(entry)
    <2>1. ~stale => ~Accepted
      BY <1>1, <1>2, <1>4 DEF ExtensionInv, LoadIsOn, Accepted
    <2> QED BY <1>1, <1>4, <2>1, LoadFails
  <1> QED BY <1>3, <1>4

\* A load that has taken every entry has the candidate of the disk.
LEMMA LoadedIsCandidate ==
  ASSUME ExtensionInv, Loading, Len(load.done) = Len(load.entries), ~stale
  PROVE  load.done = Candidate /\ RegistryLoads
  <1>1. load.entries \in Seq(Listed) /\ load.done \in Seq(Taken)
    BY DEF ExtensionInv, Types
  <1>2. /\ RegistryLoads /\ load.entries = Entries
        /\ \A i \in DOMAIN load.done : load.done[i] = Extension(Entries[i])
    BY DEF ExtensionInv, LoadIsOn
  <1>3. DOMAIN load.done = DOMAIN Entries /\ load.done = [i \in DOMAIN load.done |-> load.done[i]]
    BY <1>1, <1>2
  <1> QED BY <1>2, <1>3 DEF Candidate

LEMMA ComposeOn == ASSUME ExtensionInv, Compose PROVE ExtensionInv'
  <1>1. /\ Loading /\ Len(load.done) = Len(load.entries) /\ phase # "running"
        /\ UNCHANGED <<disk, run, draft, answer, stale>>
    BY DEF Compose, Loading
  <1>2. CASE Composes(load.done)
    <2>1. active' = load.done /\ load' = NoLoad /\ phase' = "idle"
      BY <1>2 DEF Compose
    <2>2. Types'
      BY <1>1, <2>1, NoneAreTyped DEF ExtensionInv, Types, disk
    <2>3. LoadIsOn' /\ RunIsOn' /\ DraftIsOn'
      BY <1>1, <2>1 DEF ExtensionInv, LoadIsOn, RunIsOn, DraftIsOn, Loading
    <2>4. SnapshotIsFresh'
      BY <1>1, <2>1, LoadedIsCandidate, SameDisk DEF SnapshotIsFresh, disk
    <2> QED BY <1>1, <2>2, <2>3, <2>4 DEF ExtensionInv, DraftsStayInside, disk
  <1>3. CASE ~Composes(load.done)
    <2>1. active' = active /\ KeepSnapshot
      BY <1>3 DEF Compose
    <2>2. ~stale => ~Accepted
      BY <1>1, <1>3, LoadedIsCandidate DEF Accepted
    <2> QED BY <1>1, <2>1, <2>2, LoadFails
  <1> QED BY <1>2, <1>3

-----------------------------------------------------------------------------
(***************************************************************************)
(* Runs, their tool calls, and the user.                                   *)
(***************************************************************************)
LEMMA RunOn == ASSUME ExtensionInv, StartRun \/ Cancel \/ Settle PROVE ExtensionInv'
  <1>1. CASE StartRun
    <2>1. Types'
      BY <1>1, ExtensionAssumption DEF StartRun, ExtensionInv, Types, disk
    <2>2. RunIsOn' /\ DraftIsOn'
      BY <1>1 DEF StartRun, ExtensionInv, RunIsOn, DraftIsOn, NoAnswer
    <2> QED BY <1>1, <2>1, <2>2
        DEF StartRun, ExtensionInv, LoadIsOn, SnapshotIsFresh, DraftsStayInside, Loading, disk
  <1>2. CASE Cancel
    <2>1. Types'
      BY <1>2 DEF Cancel, ExtensionInv, Types, disk
    <2>2. RunIsOn' /\ DraftIsOn'
      BY <1>2 DEF Cancel, ExtensionInv, RunIsOn, DraftIsOn, Types, disk
    <2> QED BY <1>2, <2>1, <2>2
        DEF Cancel, ExtensionInv, LoadIsOn, SnapshotIsFresh, DraftsStayInside, Loading, disk
  <1>3. CASE Settle
    <2>1. Types'
      BY <1>3, NoneAreTyped DEF Settle, ExtensionInv, Types, disk
    <2>2. RunIsOn' /\ DraftIsOn'
      BY <1>3 DEF Settle, RunIsOn, DraftIsOn
    <2> QED BY <1>3, <2>1, <2>2
        DEF Settle, ExtensionInv, LoadIsOn, SnapshotIsFresh, DraftsStayInside, Loading, disk
  <1> QED BY <1>1, <1>2, <1>3

\* A tool call that writes nothing outside, and leaves a draft that is one.
LEMMA CallOn ==
  ASSUME ExtensionInv, NEW tool, NEW result, Call(tool, result), outside' = outside,
         dirs' \in Home, draft' \in Drafts, DraftIsOn'
  PROVE  ExtensionInv'
  <1>1. /\ phase = "running" /\ phase' = phase /\ run.calls > 0
        /\ run' = [run EXCEPT !.calls = run.calls - 1]
        /\ answer'.tool = tool /\ answer'.verdict = BeforeToolCall(run.exts, tool)
        /\ UNCHANGED <<active, load, stale>>
    BY DEF Call
  <1>2. run' \in [exts : Seq(Taken), cancelled : BOOLEAN, calls : Nat] /\ run'.exts = run.exts
    <2>1. run \in [exts : Seq(Taken), cancelled : BOOLEAN, calls : Nat]
      BY DEF ExtensionInv, Types
    <2> QED BY <1>1, <2>1
  <1>3. Types'
    <2>1. IsAnswer(answer')
      BY DEF Call, IsAnswer
    <2> QED BY <1>1, <1>2, <2>1 DEF ExtensionInv, Types
  <1>4. RunIsOn'
    BY <1>1, <1>2 DEF ExtensionInv, RunIsOn
  <1> QED BY <1>1, <1>3, <1>4
      DEF ExtensionInv, LoadIsOn, SnapshotIsFresh, DraftsStayInside, Loading

Calls == OtherCall \/ ListFiles \/ ReadFile \/ Validate \/ BeginDraft \/ DraftRegistry

\* What a draft begins with: a path that held no link, and a directory at its end.
Begun ==
    /\ outside' = outside /\ draft = NoDraft /\ top' # Link
    /\ \E d \in Dirs, leaf \in Leaves \cup {"root"} :
       \E text \in (IF leaf = "main" THEN FirstPolicies ELSE DOMAIN ManifestText) :
         /\ leaf # "root" => dirs[d].root # Link
         /\ dirs' = IF leaf # "root" /\ dirs[d].root = Absent
                    THEN [dirs EXCEPT ![d].root = "dir"] ELSE dirs
         /\ draft' = [at |-> "leaf", dir |-> d, leaf |-> leaf, text |-> text, raced |-> FALSE]

\* Every tool call is one; it writes nothing, or it begins a draft.
LEMMA CallsAre ==
  ASSUME Calls
  PROVE  (\E tool, result : Call(tool, result)) /\ (NothingWritten \/ Begun)
  <1>1. CASE OtherCall
    BY <1>1, Zenon DEF OtherCall
  <1>2. CASE ListFiles
    BY <1>2, Zenon DEF ListFiles
  <1>3. CASE ReadFile
    BY <1>3, Zenon DEF ReadFile
  <1>4. CASE Validate
    BY <1>4, Zenon DEF Validate
  <1>5. CASE BeginDraft
    <2>1. PICK d \in Dirs, leaf \in Leaves \cup {"root"} :
          \E text \in (IF leaf = "main" THEN FirstPolicies ELSE DOMAIN ManifestText) :
            IF Refusal(d, leaf) # "none"
            THEN Call(FilesTool, Refusal(d, leaf)) /\ NothingWritten
            ELSE /\ Call(FilesTool, "drafting")
                 /\ top' = IF top = Absent THEN "dir" ELSE top
                 /\ dirs' = IF leaf # "root" /\ dirs[d].root = Absent
                            THEN [dirs EXCEPT ![d].root = "dir"] ELSE dirs
                 /\ draft' = [at |-> "leaf", dir |-> d, leaf |-> leaf, text |-> text,
                              raced |-> FALSE]
                 /\ outside' = outside
      BY <1>5, Zenon DEF BeginDraft
    <2>2. CASE Refusal(d, leaf) # "none"
      BY <2>1, <2>2, Zenon
    <2>3. CASE Refusal(d, leaf) = "none"
      <3>0. top # Link /\ (leaf # "root" => dirs[d].root # Link)
        BY <2>3 DEF Refusal
      <3>1. /\ Call(FilesTool, "drafting") /\ outside' = outside
            /\ top' = IF top = Absent THEN "dir" ELSE top
        BY <2>1, <2>3, Zenon
      <3>2. draft = NoDraft
        BY <3>1 DEF Call
      <3>3. \E text \in (IF leaf = "main" THEN FirstPolicies ELSE DOMAIN ManifestText) :
               /\ dirs' = IF leaf # "root" /\ dirs[d].root = Absent
                          THEN [dirs EXCEPT ![d].root = "dir"] ELSE dirs
               /\ draft' = [at |-> "leaf", dir |-> d, leaf |-> leaf, text |-> text,
                            raced |-> FALSE]
        BY <2>1, <2>3, Zenon
      <3>4. top' # Link
        BY <3>0, <3>1 DEF Link
      <3>5. Begun
        BY <3>0, <3>1, <3>2, <3>3, <3>4, Zenon DEF Begun
      <3> QED BY <3>1, <3>5, Zenon
    <2> QED BY <2>2, <2>3, Zenon
  <1>6. CASE DraftRegistry
    BY <1>6, Zenon DEF DraftRegistry
  <1> QED BY <1>1, <1>2, <1>3, <1>4, <1>5, <1>6 DEF Calls

LEMMA CallsOn == ASSUME ExtensionInv, Calls PROVE ExtensionInv'
  <1>1. PICK tool, result : Call(tool, result)
    BY CallsAre, Zenon
  <1>2. phase = "running" /\ phase' = phase /\ draft = NoDraft
    BY <1>1 DEF Call
  <1>3. dirs \in Home
    BY DEF ExtensionInv, Types
  <1>4. CASE NothingWritten
    <2>1. UNCHANGED <<top, dirs, outside, draft>>
      BY <1>4 DEF NothingWritten
    <2>2. draft' \in Drafts /\ dirs' \in Home /\ DraftIsOn'
      BY <1>2, <1>3, <2>1, NoneAreTyped DEF DraftIsOn
    <2> QED BY <1>1, <2>1, <2>2, CallOn
  <1>5. CASE Begun
    <2>1. PICK d \in Dirs, leaf \in Leaves \cup {"root"} :
          \E text \in (IF leaf = "main" THEN FirstPolicies ELSE DOMAIN ManifestText) :
            /\ leaf # "root" => dirs[d].root # Link
            /\ dirs' = IF leaf # "root" /\ dirs[d].root = Absent
                       THEN [dirs EXCEPT ![d].root = "dir"] ELSE dirs
            /\ draft' = [at |-> "leaf", dir |-> d, leaf |-> leaf, text |-> text, raced |-> FALSE]
      BY <1>5, Zenon DEF Begun
    <2>2. PICK text \in (IF leaf = "main" THEN FirstPolicies ELSE DOMAIN ManifestText) :
            /\ leaf # "root" => dirs[d].root # Link
            /\ dirs' = IF leaf # "root" /\ dirs[d].root = Absent
                       THEN [dirs EXCEPT ![d].root = "dir"] ELSE dirs
            /\ draft' = [at |-> "leaf", dir |-> d, leaf |-> leaf, text |-> text, raced |-> FALSE]
      BY <2>1
    <2>3. /\ leaf = "main" => text \in DOMAIN PolicyText
          /\ leaf = "manifest" => text \in DOMAIN ManifestText
          /\ text \in DOMAIN ManifestText \cup DOMAIN PolicyText
      BY <2>2, ExtensionAssumption
    <2>4. draft' \in Drafts
      BY <2>2, <2>3 DEF Drafts
    <2>5. dirs' \in Home /\ (leaf # "root" => dirs'[d].root # Link)
      BY <1>3, <2>2 DEF Home, Link
    <2>6. top' # Link /\ outside' = outside
      BY <1>5 DEF Begun
    <2>7. DraftIsOn'
      BY <1>2, <2>2, <2>3, <2>5, <2>6 DEF DraftIsOn
    <2> QED BY <1>1, <2>4, <2>5, <2>6, <2>7, CallOn
  <1> QED BY <1>4, <1>5, CallsAre

\* The leaf is looked at: a link is refused.
LEMMA CheckOn == ASSUME ExtensionInv, CheckLeaf PROVE ExtensionInv'
  <1>1. /\ draft.at = "leaf"
        /\ UNCHANGED <<disk, active, load, phase, run, reaped, stale>>
    BY DEF CheckLeaf
  <1>2. draft # NoDraft /\ draft \in Drafts /\ phase = "running"
    BY <1>1 DEF ExtensionInv, Types, DraftIsOn, NoDraft
  <1>3. CASE dirs[draft.dir][draft.leaf] = Link
    <2>1. draft' = NoDraft /\ answer' = [answer EXCEPT !.result = "blocked"]
      BY <1>3 DEF CheckLeaf, EndDraft
    <2>2. Types' /\ DraftIsOn' /\ RunIsOn'
      <3>0. IsAnswer(answer') /\ answer'.tool = answer.tool /\ answer'.verdict = answer.verdict
        <4>1. IsAnswer(answer)
          BY DEF ExtensionInv, Types
        <4> QED BY <2>1, <4>1, AnswerStays
      <3>1. Types'
        BY <1>1, <2>1, <3>0, NoneAreTyped DEF ExtensionInv, Types, disk
      <3>2. DraftIsOn'
        BY <2>1 DEF DraftIsOn
      <3>3. RunIsOn'
        BY <1>1, <1>2, <3>0 DEF ExtensionInv, RunIsOn
      <3> QED BY <3>1, <3>2, <3>3
    <2> QED BY <1>1, <1>2, <2>2
        DEF ExtensionInv, LoadIsOn, SnapshotIsFresh, DraftsStayInside, Loading, disk
  <1>4. CASE dirs[draft.dir][draft.leaf] # Link
    <2>1. draft' = [draft EXCEPT !.at = "write"] /\ answer' = answer
      BY <1>4 DEF CheckLeaf
    <2>2. draft' \in Drafts /\ draft' # NoDraft
      BY <1>2, <2>1 DEF Drafts, NoDraft
    <2>3. Types' /\ RunIsOn'
      BY <1>1, <2>1, <2>2 DEF ExtensionInv, Types, RunIsOn, disk
    <2>4. DraftIsOn'
      <3>1. /\ draft'.at = "write" /\ draft'.dir = draft.dir /\ draft'.leaf = draft.leaf
            /\ draft'.text = draft.text /\ draft'.raced = draft.raced
        BY <1>2, <2>1 DEF Drafts
      <3> QED BY <1>1, <1>2, <1>4, <3>1 DEF ExtensionInv, DraftIsOn, disk
    <2> QED BY <1>1, <1>2, <2>3, <2>4
        DEF ExtensionInv, LoadIsOn, SnapshotIsFresh, DraftsStayInside, Loading, disk
  <1> QED BY <1>3, <1>4

\* What fs::write follows out of the home was put there after the look.
LEMMA WriteOn == ASSUME ExtensionInv, WriteLeaf PROVE ExtensionInv'
  <1> DEFINE d == draft.dir
             leaf == draft.leaf
  <1>1. /\ draft.at = "write"
        /\ UNCHANGED <<registry, top, active, load, phase, run, reaped, stale>>
    BY DEF WriteLeaf
  <1>2. PICK full \in {Writable(d, leaf), FALSE} :
          /\ EndDraft(IF full THEN "written" ELSE "io")
          /\ outside' = IF Writable(d, leaf) /\ Behind(d, leaf)
                        THEN outside \cup {draft.raced} ELSE outside
          /\ dirs' = IF ~Writable(d, leaf) \/ Link \in {dirs[d].root, dirs[d][leaf]}
                     THEN dirs
                     ELSE [dirs EXCEPT ![d][leaf] = IF leaf = "root" THEN "file"
                                                    ELSE IF full THEN draft.text ELSE Broken]
    BY Zenon DEF WriteLeaf
  <1>3. draft # NoDraft /\ draft \in Drafts /\ phase = "running"
    BY <1>1 DEF ExtensionInv, Types, DraftIsOn, NoDraft
  <1>4. /\ d \in Dirs /\ leaf \in {"manifest", "main", "root"} /\ draft.raced \in BOOLEAN
        /\ leaf = "main" => draft.text \in DOMAIN PolicyText
        /\ leaf = "manifest" => draft.text \in DOMAIN ManifestText
    BY <1>3 DEF ExtensionInv, DraftIsOn, Leaves, Drafts
  <1>5. dirs' \in Home
    <2>1. dirs \in Home
      BY DEF ExtensionInv, Types
    <2>2. CASE dirs' = dirs
      BY <2>1, <2>2
    <2>3. CASE dirs' # dirs
      <3>1. PICK put : /\ dirs' = [dirs EXCEPT ![d][leaf] = put]
                       /\ put = IF leaf = "root" THEN "file"
                                ELSE IF full THEN draft.text ELSE Broken
        BY <1>2, <2>3
      <3> HIDE DEF d, leaf
      <3>2. /\ leaf = "root" => put = "file"
            /\ leaf = "main" => put \in DOMAIN PolicyText \cup {Broken}
            /\ leaf = "manifest" => put \in DOMAIN ManifestText \cup {Broken}
        BY <1>4, <3>1
      <3> QED BY <1>4, <2>1, <3>1, <3>2 DEF Home
    <2> QED BY <2>2, <2>3
  <1>6. FALSE \notin outside'
    <2>1. ~draft.raced => ~(Writable(d, leaf) /\ Behind(d, leaf))
      <3> SUFFICES ASSUME ~draft.raced, Writable(d, leaf), Behind(d, leaf) PROVE FALSE
        OBVIOUS
      <3>1. top # Link /\ dirs[d][leaf] # Link /\ (leaf # "root" => dirs[d].root # Link)
        BY <1>1, <1>3 DEF ExtensionInv, DraftIsOn
      <3>2. CASE leaf = "root"
        BY <3>1, <3>2 DEF Behind
      <3>3. CASE leaf # "root"
        BY <3>1, <3>3 DEF Behind
      <3> QED BY <3>2, <3>3
    <2>2. FALSE \notin outside
      BY DEF ExtensionInv, DraftsStayInside
    <2> QED BY <1>2, <1>4, <2>1, <2>2
  <1>7. draft' = NoDraft /\ \E result : answer' = [answer EXCEPT !.result = result]
    BY <1>2 DEF EndDraft
  <1>8. IsAnswer(answer') /\ answer'.tool = answer.tool /\ answer'.verdict = answer.verdict
    <2>1. IsAnswer(answer)
      BY DEF ExtensionInv, Types
    <2>2. PICK result : answer' = [answer EXCEPT !.result = result]
      BY <1>7
    <2> QED BY <2>1, <2>2, AnswerStays, Zenon
  <1>9. Types'
    BY <1>1, <1>5, <1>7, <1>8, NoneAreTyped DEF ExtensionInv, Types
  <1>10. DraftIsOn' /\ RunIsOn'
    BY <1>1, <1>3, <1>7, <1>8 DEF ExtensionInv, DraftIsOn, RunIsOn
  <1> QED BY <1>1, <1>3, <1>6, <1>9, <1>10
      DEF ExtensionInv, LoadIsOn, SnapshotIsFresh, DraftsStayInside, Loading

LEMMA EditOn == ASSUME ExtensionInv, UserEdits PROVE ExtensionInv'
  <1>1. /\ stale' = TRUE /\ UNCHANGED <<outside, active, load, phase, run, answer>>
        /\ draft' = IF draft = NoDraft THEN draft ELSE [draft EXCEPT !.raced = TRUE]
    BY DEF UserEdits
  <1>2. draft' \in Drafts /\ DraftIsOn'
    <2>1. CASE draft = NoDraft
      BY <1>1, <2>1, NoneAreTyped DEF DraftIsOn
    <2>2. CASE draft # NoDraft
      <3>1. draft \in Drafts
        BY DEF ExtensionInv, Types
      <3>2. /\ draft' \in Drafts /\ draft'.raced = TRUE /\ draft'.at = draft.at
            /\ draft'.dir = draft.dir /\ draft'.leaf = draft.leaf /\ draft'.text = draft.text
        BY <1>1, <2>2, <3>1 DEF Drafts
      <3> QED BY <1>1, <2>2, <3>2 DEF ExtensionInv, DraftIsOn
    <2> QED BY <2>1, <2>2
  <1>3. dirs' \in Home
    <2>1. dirs \in Home
      BY DEF ExtensionInv, Types
    <2>2. CASE \E text : EditRegistry(text)
      BY <2>1, <2>2 DEF EditRegistry
    <2>3. CASE \E d \in Dirs, text \in FirstPolicies \cup {Absent, Link, Broken} :
                 EditFile(d, "main", text)
      <3>1. PICK d \in Dirs, text \in DOMAIN PolicyText \cup {Absent, Link, Broken} :
              dirs' = [dirs EXCEPT ![d].main = text]
        BY <2>3, ExtensionAssumption DEF EditFile
      <3> QED BY <2>1, <3>1 DEF Home
    <2>4. CASE \E d \in Dirs, text \in DOMAIN ManifestText \cup {Absent, Link, Broken} :
                 EditFile(d, "manifest", text)
      <3>1. PICK d \in Dirs, text \in DOMAIN ManifestText \cup {Absent, Link, Broken} :
              dirs' = [dirs EXCEPT ![d].manifest = text]
        BY <2>4 DEF EditFile
      <3> QED BY <2>1, <3>1 DEF Home
    <2>5. CASE \E d \in Dirs, at \in {Gone, [Gone EXCEPT !.root = Link]} : MoveDir(d, at)
      <3>1. PICK d \in Dirs, at \in {Gone, [Gone EXCEPT !.root = Link]} :
              dirs' = [dirs EXCEPT ![d] = at]
        BY <2>5 DEF MoveDir
      <3> QED BY <2>1, <3>1 DEF Home, Gone
    <2>6. CASE MoveTop
      BY <2>1, <2>6 DEF MoveTop
    <2> QED BY <2>2, <2>3, <2>4, <2>5, <2>6 DEF UserEdits
  <1>4. Types' /\ RunIsOn'
    BY <1>1, <1>2, <1>3 DEF ExtensionInv, Types, RunIsOn
  <1> QED BY <1>1, <1>2, <1>4 DEF ExtensionInv, LoadIsOn, SnapshotIsFresh, DraftsStayInside, Loading

-----------------------------------------------------------------------------
LEMMA ExtensionInit == Init => ExtensionInv
  <1> SUFFICES ASSUME Init PROVE ExtensionInv
    OBVIOUS
  <1>1. Types
    <2>1. dirs \in Home
      BY ExtensionAssumption DEF Init, Home, Gone
    <2> QED BY <2>1, NoneAreTyped DEF Init, Types
  <1> QED BY <1>1 DEF Init, ExtensionInv, LoadIsOn, RunIsOn, DraftIsOn, SnapshotIsFresh,
                      DraftsStayInside, Loading

LEMMA ExtensionStep == ExtensionInv /\ [Next]_vars => ExtensionInv'
  <1> SUFFICES ASSUME ExtensionInv, [Next]_vars PROVE ExtensionInv'
    OBVIOUS
  <1>1. CASE StartUp
    BY <1>1, LoadBegins DEF StartUp
  <1>2. CASE Reload \/ Reap
    BY <1>2, LoadBegins DEF Reload, Reap
  <1>3. CASE Calls
    BY <1>3, CallsOn
  <1>4. CASE UNCHANGED vars
    <2>1. UNCHANGED <<registry, top, dirs, outside, active, load, phase, run, draft, reaped,
                      answer, stale>>
      BY <1>4 DEF vars
    <2>2. SnapshotIsFresh'
      BY <2>1, SameDisk DEF ExtensionInv, SnapshotIsFresh
    <2>3. LoadIsOn'
      <3>1. \A i : Extension(Entries[i])' = Extension(Entries[i])
        BY <2>1, SameDisk DEF Extension
      <3> QED BY <2>1, <3>1, SameDisk DEF ExtensionInv, LoadIsOn, Loading
    <2> QED BY <2>1, <2>2, <2>3 DEF ExtensionInv, Types, RunIsOn, DraftIsOn, DraftsStayInside
  <1> QED BY <1>1, <1>2, <1>3, <1>4, EntryOn, ComposeOn, RunOn, CheckOn, WriteOn, EditOn
      DEF Next, Calls

\* The invariant holds for every home, whatever the user and the model write
\* into it and however often the host loads it.
THEOREM ExtensionInvHolds == Spec => []ExtensionInv
  <1> QED BY ExtensionInit, ExtensionStep, PTL DEF Spec

\* Once the last run is reaped, the snapshot in force is that of the disk: a
\* registry that loads is taken, with the drafts of every run so far, unless the
\* user has edited since the load began (TeaExtensions::load, reap_task).
THEOREM SnapshotFreshness == Spec => []SnapshotIsFresh
  <1>1. ExtensionInv => SnapshotIsFresh
    BY DEF ExtensionInv
  <1> QED BY <1>1, ExtensionInvHolds, PTL

LEMMA FirstDecides == ExtensionInv => FirstDenialDecides
  <1> SUFFICES ASSUME ExtensionInv, phase = "running", answer.tool # "none"
               PROVE  LET denials == {i \in DOMAIN run.exts :
                                        Decision(run.exts[i], answer.tool) # "allow"}
                      IN  answer.verdict = IF denials = {} THEN "allow"
                            ELSE Decision(run.exts[CHOOSE i \in denials :
                                             \A j \in denials : i <= j], answer.tool)
    BY DEF FirstDenialDecides
  <1> DEFINE denials == {i \in DOMAIN run.exts : Decision(run.exts[i], answer.tool) # "allow"}
             d == [i \in DOMAIN run.exts |-> Decision(run.exts[i], answer.tool)]
  <1>1. run.exts \in Seq(Taken)
    BY DEF ExtensionInv, Types
  <1>2. answer.verdict = FirstOf(d, DOMAIN run.exts)
    BY <1>1, ChainIsFirst DEF ExtensionInv, RunIsOn
  <1>3. Denials(d, DOMAIN run.exts) = denials
    BY DEF Denials
  <1>4. denials # {} => Min(denials) \in DOMAIN run.exts
    <2>1. denials \in SUBSET Nat
      BY <1>1
    <2> QED BY <2>1, LeastIs
  <1>5. Min(denials) = CHOOSE i \in denials : \A j \in denials : i <= j
    BY DEF Min
  <1> QED BY <1>2, <1>3, <1>4, <1>5 DEF FirstOf

\* A model's draft leaves the extensions directory only behind a link that the
\* user put on its path between the look and the write (write_draft), and the
\* first extension of the registry that does not allow a call decides it
\* (LuaPolicyHookSet, compose_tea_configuration).
THEOREM RunsGuarded == Spec => []RunsAreGuarded
  <1>1. ExtensionInv => RunsAreGuarded
    BY FirstDecides DEF ExtensionInv, RunsAreGuarded
  <1> QED BY <1>1, ExtensionInvHolds, PTL

-----------------------------------------------------------------------------
(***************************************************************************)
(* A snapshot is replaced as a whole, and between runs only.               *)
(***************************************************************************)
Replaces ==
    active' # active =>
        /\ Loading /\ ~(\E i, j \in DOMAIN active' : i # j /\ active'[i].name = active'[j].name)
        /\ [i \in DOMAIN active' |-> active'[i].name]
             = [i \in DOMAIN load.entries |-> load.entries[i].name]
        /\ \A i, j \in DOMAIN active' :
             i # j => ToSet(Policy(active'[i]).tools) \cap ToSet(Policy(active'[j]).tools) = {}
RunKeeps == (run # NoRun /\ run' # NoRun) => run'.exts = run.exts /\ run.exts = active'

\* Extensions that compose declare no tool twice.
LEMMA ToolsApart ==
  ASSUME NEW exts \in Seq(Taken), Composes(exts)
  PROVE  \A i, j \in DOMAIN exts :
           i # j => ToSet(Policy(exts[i]).tools) \cap ToSet(Policy(exts[j]).tools) = {}
  <1> DEFINE tools == [i \in DOMAIN exts |-> Policy(exts[i]).tools]
  <1>1. tools \in Seq(Seq(STRING)) /\ DOMAIN tools = DOMAIN exts
    <2>1. \A i \in DOMAIN exts : Policy(exts[i]).tools \in Seq(STRING)
      <3> SUFFICES ASSUME NEW i \in DOMAIN exts PROVE Policy(exts[i]).tools \in Seq(STRING)
        OBVIOUS
      <3>1. exts[i] \in Taken
        OBVIOUS
      <3>2. exts[i].policy \in DOMAIN PolicyText
        BY <3>1 DEF Taken
      <3> QED BY <3>2, ExtensionAssumption DEF Policy
    <2> QED BY <2>1
  <1>2. IsInjective(FlattenSeq(tools))
    BY DEF Composes, Declared
  <1>3. \A i, j \in DOMAIN tools : i # j => ToSet(tools[i]) \cap ToSet(tools[j]) = {}
    <2> HIDE DEF tools
    <2> QED BY <1>1, <1>2, FlattenApart
  <1> QED BY <1>1, <1>3

LEMMA OnlyComposeReplaces ==
  ASSUME [Next]_vars
  PROVE  active' = active \/ (Compose /\ Composes(load.done) /\ active' = load.done)
  <1>1. CASE Calls
    BY <1>1, CallsAre DEF Call
  <1>2. CASE Compose
    BY <1>2 DEF Compose
  <1>3. CASE StartUp \/ LoadEntry \/ Reload \/ StartRun \/ Cancel \/ Settle \/ Reap
             \/ CheckLeaf \/ WriteLeaf \/ UserEdits \/ UNCHANGED vars
    BY <1>3 DEF StartUp, LoadEntry, Reload, StartRun, Cancel, Settle, Reap, CheckLeaf, WriteLeaf,
                UserEdits, vars
  <1> QED BY <1>1, <1>2, <1>3 DEF Next, Calls

LEMMA StepReplaces == ExtensionInv /\ [Next]_vars => Replaces
  <1> SUFFICES ASSUME ExtensionInv, [Next]_vars, active' # active PROVE Replaces
    BY DEF Replaces
  <1>1. Loading /\ Len(load.done) = Len(load.entries) /\ Composes(load.done) /\ active' = load.done
    BY OnlyComposeReplaces DEF Compose
  <1>2. load.done \in Seq(Taken) /\ load.entries \in Seq(Listed)
    BY DEF ExtensionInv, Types
  <1>3. DOMAIN load.done = DOMAIN load.entries
    BY <1>1, <1>2
  <1>4. /\ \A i \in DOMAIN load.done : load.done[i].name = load.entries[i].name
        /\ \A i, j \in DOMAIN load.entries : load.entries[i].name = load.entries[j].name => i = j
    BY <1>1 DEF ExtensionInv, LoadIsOn
  <1>5. \A i, j \in DOMAIN active' :
          i # j => ToSet(Policy(active'[i]).tools) \cap ToSet(Policy(active'[j]).tools) = {}
    BY <1>1, <1>2, ToolsApart
  <1> QED BY <1>1, <1>3, <1>4, <1>5 DEF Replaces

LEMMA StepKeepsRun == ExtensionInv /\ [Next]_vars => RunKeeps
  <1> SUFFICES ASSUME ExtensionInv, [Next]_vars, run # NoRun, run' # NoRun PROVE RunKeeps
    BY DEF RunKeeps
  <1>1. phase = "running" /\ run.exts = active
    BY DEF ExtensionInv, RunIsOn
  <1>2. active' = active
    BY <1>1, OnlyComposeReplaces DEF Compose, Loading
  <1>3. run'.exts = run.exts
    <2>1. CASE Calls
      <3>1. run' = [run EXCEPT !.calls = @ - 1]
        BY <2>1, CallsAre DEF Call
      <3> QED BY <3>1 DEF ExtensionInv, Types
    <2>2. CASE Cancel
      BY <2>2 DEF Cancel, ExtensionInv, Types
    <2>3. CASE UserEdits \/ CheckLeaf \/ WriteLeaf \/ UNCHANGED vars
      BY <2>3 DEF UserEdits, CheckLeaf, WriteLeaf, vars
    <2>4. CASE StartUp \/ LoadEntry \/ Compose \/ Reload \/ StartRun \/ Settle \/ Reap
      BY <1>1, <2>4 DEF StartUp, LoadEntry, Compose, Reload, StartRun, Settle, Reap, Loading
    <2> QED BY <2>1, <2>2, <2>3, <2>4 DEF Next, Calls
  <1> QED BY <1>1, <1>2, <1>3 DEF RunKeeps

\* A snapshot is replaced by all the entries of the registry that was read, in
\* its order, with no name and no tool twice, and never while a run holds it
\* (compose_tea_configuration, replace_configuration).
THEOREM SnapshotsReplacedWhole == Spec => SnapshotsAreWhole
  <1>1. ExtensionInv /\ [Next]_vars => [Replaces]_vars /\ [RunKeeps]_vars
    BY StepReplaces, StepKeepsRun
  <1>2. ReplacedWhole <=> [][Replaces]_vars
    BY PTL DEF ReplacedWhole, Replaces
  <1>3. RunKeepsSnapshot <=> [][RunKeeps]_vars
    BY PTL DEF RunKeepsSnapshot, RunKeeps
  <1>4. SnapshotsAreWhole <=> ReplacedWhole /\ RunKeepsSnapshot
    BY DEF SnapshotsAreWhole
  <1> QED BY <1>1, <1>2, <1>3, <1>4, ExtensionInit, ExtensionStep, PTL DEF Spec
=============================================================================
