-------------------------- MODULE LuauCallsProofs --------------------------
(***************************************************************************)
(* What holds of a Luau policy and of the calls its code makes, for every  *)
(* bundle, every set of requests, manifest and limit: the import stack is  *)
(* the stack of the modules being evaluated, a module has one value, and a *)
(* coroutine gets the answers it was granted, once and in order.           *)
(***************************************************************************)
EXTENDS LuauCalls, SequenceTheorems, TLAPS

-----------------------------------------------------------------------------
(* The virtual machine: the invariant. *)

\* The stack of imports: modules of the bundle, each once, none with a value.
StackOfImports ==
    /\ loading \in Seq(bundle)
    /\ \A i, j \in 1 .. Len(loading) : loading[i] = loading[j] => i = j
    /\ \A i \in 1 .. Len(loading) : cache[loading[i]] = 0

\* Modules are evaluated while the policy is loaded, and below all of them is
\* the entry point, which nobody has evaluated before.
LoadedOnce ==
    /\ frames = <<Hook>> => policy = "loaded"
    /\ frames # <<Hook>> /\ frames # <<>> => policy = "none"
    /\ policy = "none" /\ frames = <<>> => \A path \in bundle : cache[path] = 0

\* What was given is what is kept.
GivenIsKept ==
    \A x \in given : x[1] \in bundle /\ cache[x[1]] = x[2] /\ x[2] # 0

MachineOK ==
    /\ \A path \in bundle : Canonical(path)
    /\ entrypoint \in bundle
    /\ cache \in [bundle -> Nat] /\ made \in Nat
    /\ ImportsFollowCalls /\ StackOfImports /\ LoadedOnce /\ GivenIsKept

-----------------------------------------------------------------------------
(* Sequences. *)

LEMMA FrontOfSeq ==
    ASSUME NEW S, NEW s \in Seq(S), s # <<>>
    PROVE  /\ Front(s) \in Seq(S)
           /\ Len(Front(s)) = Len(s) - 1
           /\ \A i \in 1 .. Len(s) - 1 : Front(s)[i] = s[i]
           /\ Last(s) = s[Len(s)] /\ Last(s) \in S
           /\ Len(s) \in Nat \ {0}
<1>1. Len(s) \in Nat \ {0} /\ \A i \in 1 .. Len(s) : s[i] \in S
  BY EmptySeq, ElementOfSeq
<1>2. \A i \in 1 .. Len(s) - 1 : s[i] \in S
  BY <1>1
<1>3. Len(s) - 1 \in Int /\ 1 \in Int
  BY <1>1
<1>4. /\ SubSeq(s, 1, Len(s) - 1) \in Seq(S)
      /\ Len(SubSeq(s, 1, Len(s) - 1)) = IF 1 <= Len(s) - 1 THEN Len(s) - 1 - 1 + 1 ELSE 0
      /\ \A i \in 1 .. Len(s) - 1 - 1 + 1 : SubSeq(s, 1, Len(s) - 1)[i] = s[1 + i - 1]
  BY <1>2, <1>3, SubSeqProperties
<1>5. Len(Front(s)) = Len(s) - 1
  <2>1. Len(Front(s)) = IF 1 <= Len(s) - 1 THEN Len(s) - 1 - 1 + 1 ELSE 0
    BY <1>4 DEF Front
  <2>2. Len(s) \in Nat /\ Len(s) >= 1
    BY <1>1
  <2>3. \A n \in Nat : n >= 1 => (IF 1 <= n - 1 THEN n - 1 - 1 + 1 ELSE 0) = n - 1
    OBVIOUS
  <2> QED
    BY <2>1, <2>2, <2>3
<1>6. \A i \in 1 .. Len(s) - 1 : Front(s)[i] = s[i]
  <2> TAKE i \in 1 .. Len(s) - 1
  <2>1. i \in 1 .. Len(s) - 1 - 1 + 1 /\ 1 + i - 1 = i
    BY <1>1
  <2> QED
    BY <1>4, <2>1 DEF Front
<1>7. Last(s) = s[Len(s)] /\ Last(s) \in S
  BY <1>1 DEF Last
<1> QED
  BY <1>1, <1>4, <1>5, <1>6, <1>7 DEF Front

\* The last occurrence of the module on top is the top.
LEMMA FinishTop ==
    ASSUME NEW S, loading \in Seq(S), loading # <<>>,
           \A i, j \in 1 .. Len(loading) : loading[i] = loading[j] => i = j
    PROVE  FinishLoading(Last(loading)) = Front(loading)
<1> DEFINE n == Len(loading)
           IsLast(i) == loading[i] = Last(loading)
                        /\ \A j \in i + 1 .. n : loading[j] # Last(loading)
<1>1. n \in Nat \ {0} /\ Last(loading) = loading[n] /\ DOMAIN loading = 1 .. n
  BY FrontOfSeq, LenProperties
<1>2. Contains(loading, Last(loading))
  BY <1>1 DEF Contains
<1>3. n \in DOMAIN loading /\ IsLast(n)
  BY <1>1
<1>4. \A i \in DOMAIN loading : IsLast(i) => i = n
  BY <1>1
<1>5. (CHOOSE i \in DOMAIN loading : IsLast(i)) = n
  BY <1>3, <1>4
<1>6. FinishLoading(Last(loading)) = RemoveAt(loading, n)
  BY <1>2, <1>5 DEF FinishLoading
<1>7. SubSeq(loading, n + 1, n) = <<>>
  BY <1>1, SubSeqEmpty
<1>8. RemoveAt(loading, n) = Front(loading) \o <<>>
  BY <1>7 DEF RemoveAt, Front
<1> QED
  BY <1>6, <1>8, FrontOfSeq, ConcatEmptySeq

-----------------------------------------------------------------------------
(* The virtual machine: every step preserves the invariant. *)

\* Neither a hook nor what leaves the root is a module.
LEMMA NoModules == ~Canonical(Hook) /\ ~Canonical(Escapes)
<1>1. 1 \in DOMAIN Hook /\ Hook[1] = "" /\ 1 \in DOMAIN Escapes /\ Escapes[1] = ".."
  BY DEF Hook, Escapes
<1>2. "" \in ToSet(Hook) /\ ".." \in ToSet(Escapes)
  BY <1>1 DEF ToSet
<1> QED
  BY <1>2 DEF Canonical

LEMMA MachineInit == PolicyInit => MachineOK
<1> SUFFICES ASSUME PolicyInit PROVE MachineOK
  OBVIOUS
<1>1. PICK record \in Records :
        /\ Builds(record)
        /\ bundle = ToSet(record.sources) /\ entrypoint = record.entrypoint
  BY DEF PolicyInit
<1>2. \A path \in bundle : Canonical(path)
  BY <1>1 DEF Builds, ToSet
<1>3. <<>> # <<Hook>> /\ Len(<<>>) = 0 /\ <<>> \in Seq(bundle)
  OBVIOUS
<1>4. /\ policy = "none" /\ cache = [path \in bundle |-> 0] /\ loading = <<>> /\ frames = <<>>
      /\ made = 0 /\ given = {}
  BY DEF PolicyInit
<1> QED
  BY <1>1, <1>2, <1>3, <1>4
  DEF MachineOK, ImportsFollowCalls, StackOfImports, LoadedOnce, GivenIsKept, Builds

\* What the top activation is.
LEMMA OnTop ==
    ASSUME MachineOK, frames # <<>>
    PROVE  \/ frames = <<Hook>> /\ loading = <<>> /\ Top = Hook
           \/ /\ frames # <<Hook>> /\ frames = loading /\ Top \in bundle /\ Top # Hook
              /\ cache[Top] = 0
              /\ FinishLoading(Top) = Front(loading)
<1>1. CASE frames = <<Hook>>
  BY <1>1 DEF MachineOK, ImportsFollowCalls, Top, Last
<1>2. CASE frames # <<Hook>>
  <2>1. frames = loading /\ loading \in Seq(bundle) /\ loading # <<>>
    BY <1>2 DEF MachineOK, ImportsFollowCalls, StackOfImports
  <2>2. Top \in bundle /\ Top = loading[Len(loading)] /\ Len(loading) \in 1 .. Len(loading)
    BY <2>1, FrontOfSeq DEF Top
  <2>3. FinishLoading(Top) = Front(loading)
    BY <2>1, FinishTop DEF MachineOK, StackOfImports, Top
  <2> QED
    BY <1>2, <2>1, <2>2, <2>3, NoModules DEF MachineOK, StackOfImports
<1> QED
  BY <1>1, <1>2

\* Steps that leave the stack and the values as they are.
LEMMA MachineElsewhere ==
    ASSUME MachineOK,
           UNCHANGED <<bundle, entrypoint, policy, cache, loading, frames, made>>,
           given' = given \/ \E path \in bundle :
                               cache[path] # 0 /\ given' = given \cup {<<path, cache[path]>>}
    PROVE  MachineOK'
BY DEF MachineOK, ImportsFollowCalls, StackOfImports, LoadedOnce, GivenIsKept

LEMMA MachineEvaluate ==
    ASSUME MachineOK, Runs, NEW request, ~Cached(Required(request)),
           ~Refused(Required(request)), Evaluate(Required(request)),
           UNCHANGED <<bundle, entrypoint, policy>>
    PROVE  MachineOK'
<1> DEFINE path == Required(request)
<1>1. path \in bundle /\ cache[path] = 0 /\ ~Contains(loading, path)
  BY DEF MachineOK, Cached, Refused
<1>2. loading # <<>>
  BY <1>1, NoModules DEF MachineOK, Required
<1>3. frames = loading /\ frames # <<Hook>> /\ frames # <<>>
  BY <1>2, OnTop DEF Runs
<1> HIDE DEF path
<1>4. /\ loading \in Seq(bundle) /\ Len(loading) \in Nat \ {0}
      /\ loading' = Append(loading, path) /\ frames' = loading'
      /\ UNCHANGED <<cache, made, given>>
  BY <1>2, <1>3, EmptySeq DEF Evaluate, MachineOK, StackOfImports, path
<1>5. /\ loading' \in Seq(bundle) /\ loading' # <<>>
      /\ Len(loading') = Len(loading) + 1
      /\ \A i \in 1 .. Len(loading) : loading'[i] = loading[i]
      /\ loading'[Len(loading) + 1] = path
  BY <1>1, <1>4, AppendProperties
<1>6. \A i \in 1 .. Len(loading) : loading[i] # path
  BY <1>1 DEF Contains
<1>7. loading' # <<Hook>>
  <2>1. Len(loading') # 1
    BY <1>4, <1>5
  <2>2. Len(<<Hook>>) = 1
    OBVIOUS
  <2> QED
    BY <2>1, <2>2, Zenon
<1>8. StackOfImports'
  BY <1>1, <1>4, <1>5, <1>6 DEF MachineOK, StackOfImports
<1>9. LoadedOnce'
  BY <1>3, <1>4, <1>5, <1>7 DEF MachineOK, LoadedOnce
<1> QED
  BY <1>4, <1>7, <1>8, <1>9 DEF MachineOK, ImportsFollowCalls, GivenIsKept

LEMMA MachineRequire == ASSUME MachineOK, LuaRequire PROVE MachineOK'
<1>1. PICK request \in Requests :
         LET path == Required(request)
         IN  CASE Cached(path) -> /\ given' = given \cup {<<path, cache[path]>>}
                                  /\ UNCHANGED <<cache, loading, frames, thrown, made>>
               [] Refused(path) -> /\ thrown' = TRUE
                                   /\ UNCHANGED <<cache, loading, frames, made, given>>
               [] OTHER -> Evaluate(path)
  BY DEF LuaRequire
<1>2. Runs /\ UNCHANGED <<bundle, entrypoint, policy>>
  BY DEF LuaRequire, Checked
<1>3. CASE Cached(Required(request))
  <2>1. /\ given' = given \cup {<<Required(request), cache[Required(request)]>>}
        /\ UNCHANGED <<cache, loading, frames, made>>
    <3>1. ~Refused(Required(request))
      BY <1>3 DEF Cached, Refused
    <3> QED
      BY <1>1, <1>3, <3>1
  <2> QED
    BY <1>2, <1>3, <2>1, MachineElsewhere DEF Cached
<1>4. CASE Refused(Required(request)) /\ ~Cached(Required(request))
  <2>1. UNCHANGED <<cache, loading, frames, made, given>>
    BY <1>1, <1>4
  <2> QED
    BY <1>2, <2>1, MachineElsewhere
<1>5. CASE ~Refused(Required(request)) /\ ~Cached(Required(request))
  <2>1. Evaluate(Required(request))
    BY <1>1, <1>5
  <2> QED
    BY <1>2, <1>5, <2>1, MachineEvaluate
<1> QED
  BY <1>3, <1>4, <1>5

\* The stack without its top.
LEMMA FrontOfImports ==
    ASSUME MachineOK, frames # <<>>, frames # <<Hook>>
    PROVE  /\ Front(loading) \in Seq(bundle)
           /\ Len(Front(loading)) = Len(loading) - 1 /\ Len(loading) \in Nat \ {0}
           /\ \A i \in 1 .. Len(loading) - 1 : Front(loading)[i] = loading[i]
           /\ \A i \in 1 .. Len(loading) - 1 : loading[i] # Top
           /\ Front(loading) # <<Hook>>
           /\ frames = loading
<1>1. /\ loading \in Seq(bundle) /\ loading # <<>> /\ frames = loading
      /\ \A i, j \in 1 .. Len(loading) : loading[i] = loading[j] => i = j
  BY DEF MachineOK, ImportsFollowCalls, StackOfImports
<1>2. /\ Front(loading) \in Seq(bundle)
      /\ Len(Front(loading)) = Len(loading) - 1 /\ Len(loading) \in Nat \ {0}
      /\ \A i \in 1 .. Len(loading) - 1 : Front(loading)[i] = loading[i]
      /\ Top = loading[Len(loading)]
  BY <1>1, FrontOfSeq DEF Top
<1>3. Front(loading) # <<Hook>>
  <2>1. ASSUME Front(loading) = <<Hook>> PROVE FALSE
    <3>1. <<Hook>> \in Seq(bundle) /\ Len(<<Hook>>) = 1 /\ <<Hook>>[1] = Hook
      BY <1>2, <2>1
    <3>2. Hook \in bundle
      BY <3>1, ElementOfSeq
    <3> QED
      BY <3>2, NoModules DEF MachineOK
  <2> QED
    BY <2>1
<1>4. \A i \in 1 .. Len(loading) - 1 : loading[i] # Top
  BY <1>1, <1>2
<1> QED
  BY <1>1, <1>2, <1>3, <1>4

\* A module is popped: with a value of its own, or with none.
LEMMA MachinePop ==
    ASSUME MachineOK, frames # <<>>, frames # <<Hook>>,
           UNCHANGED <<bundle, entrypoint>>,
           loading' = FinishLoading(Top), frames' = Front(frames),
           \/ UNCHANGED <<cache, made, given>>
           \/ /\ made' = made + 1 /\ cache' = [cache EXCEPT ![Top] = made + 1]
              /\ given' = given \/ given' = given \cup {<<Top, made + 1>>},
           IF Len(frames) = 1 THEN policy' # "none" ELSE UNCHANGED policy
    PROVE  MachineOK'
<1>1. Top \in bundle /\ cache[Top] = 0 /\ loading' = Front(loading) /\ frames' = loading'
  BY OnTop, FrontOfImports
<1>2. /\ cache' \in [bundle -> Nat] /\ made' \in Nat
      /\ \A path \in bundle \ {Top} : cache'[path] = cache[path]
  BY <1>1 DEF MachineOK
<1>3. StackOfImports'
  <2>1. /\ loading' \in Seq(bundle) /\ Len(loading') = Len(loading) - 1
        /\ Len(loading) \in Nat \ {0}
        /\ \A i \in 1 .. Len(loading') : loading'[i] = loading[i] /\ loading[i] # Top
    BY <1>1, FrontOfImports
  <2>2. \A i \in 1 .. Len(loading') : loading'[i] \in bundle
    BY <2>1, ElementOfSeq
  <2>3. \A i \in 1 .. Len(loading') : cache'[loading'[i]] = 0
    <3> TAKE i \in 1 .. Len(loading')
    <3>1. loading'[i] \in bundle \ {Top} /\ loading'[i] = loading[i] /\ i \in 1 .. Len(loading)
      BY <2>1, <2>2
    <3>2. cache[loading[i]] = 0
      BY <3>1 DEF MachineOK, StackOfImports
    <3> QED
      BY <1>2, <3>1, <3>2
  <2>4. \A i, j \in 1 .. Len(loading') : loading'[i] = loading'[j] => i = j
    <3> TAKE i, j \in 1 .. Len(loading')
    <3>1. /\ i \in 1 .. Len(loading) /\ j \in 1 .. Len(loading)
          /\ loading'[i] = loading[i] /\ loading'[j] = loading[j]
      BY <2>1
    <3> QED
      BY <3>1 DEF MachineOK, StackOfImports
  <2> QED
    BY <2>1, <2>3, <2>4 DEF StackOfImports
<1>4. ImportsFollowCalls' /\ frames' # <<Hook>>
  BY <1>1, FrontOfImports DEF ImportsFollowCalls
<1>5. LoadedOnce'
  <2>1. policy = "none"
    BY DEF MachineOK, LoadedOnce
  <2>2. frames' = <<>> => policy' # "none"
    <3>1. Len(frames') = Len(frames) - 1 /\ Len(frames) \in Nat
      BY <1>1, FrontOfImports
    <3>2. frames' = <<>> => Len(frames') = 0
      OBVIOUS
    <3> QED
      BY <3>1, <3>2
  <2>3. frames' # <<>> => policy' = "none"
    <3>1. Len(frames') = Len(frames) - 1 /\ Len(frames) \in Nat /\ frames' \in Seq(bundle)
      BY <1>1, FrontOfImports
    <3>2. frames' # <<>> => Len(frames') # 0
      BY <3>1, EmptySeq
    <3> QED
      BY <2>1, <3>1, <3>2
  <2> QED
    BY <1>4, <2>2, <2>3 DEF LoadedOnce
<1>6. GivenIsKept'
  <2>1. \A x \in given : x[1] \in bundle \ {Top} /\ cache'[x[1]] = x[2] /\ x[2] # 0
    BY <1>1, <1>2 DEF MachineOK, GivenIsKept
  <2>2. made + 1 # 0 /\ made \in Nat
    BY DEF MachineOK
  <2>3. CASE given' = given
    BY <2>1, <2>3 DEF GivenIsKept
  <2>4. CASE /\ given' = given \cup {<<Top, made + 1>>}
             /\ cache' = [cache EXCEPT ![Top] = made + 1]
    <3>1. cache'[Top] = made + 1
      BY <1>1, <2>4 DEF MachineOK
    <3> QED
      BY <1>1, <2>1, <2>2, <2>4, <3>1 DEF GivenIsKept
  <2> QED
    BY <2>3, <2>4
<1> QED
  BY <1>2, <1>3, <1>4, <1>5, <1>6 DEF MachineOK

LEMMA MachineReturns ==
    ASSUME MachineOK, ModuleReturns \/ EntrypointReturns
    PROVE  MachineOK'
<1>1. /\ frames # <<>> /\ frames # <<Hook>>
      /\ IF Len(frames) = 1 THEN policy' # "none" ELSE UNCHANGED policy
  <2>1. CASE ModuleReturns
    <3>1. Len(<<Hook>>) = 1 /\ Len(<<>>) = 0 /\ ~(1 > 1) /\ ~(0 > 1)
      OBVIOUS
    <3>2. Len(frames) # 1
      BY <2>1 DEF ModuleReturns
    <3> QED
      BY <2>1, <3>1, <3>2 DEF ModuleReturns
  <2>2. CASE EntrypointReturns
    <3>1. frames = <<entrypoint>> /\ policy' # "none"
      BY <2>2 DEF EntrypointReturns
    <3>2. entrypoint # Hook
      BY NoModules DEF MachineOK
    <3>3. Len(<<entrypoint>>) = 1 /\ <<entrypoint>>[1] = entrypoint /\ <<Hook>>[1] = Hook
      OBVIOUS
    <3> QED
      BY <3>1, <3>2, <3>3
  <2> QED
    BY <2>1, <2>2
<1>2. /\ UNCHANGED <<bundle, entrypoint>>
      /\ loading' = FinishLoading(Top)
      /\ made' = made + 1 /\ cache' = [cache EXCEPT ![Top] = made + 1]
      /\ given' = given \/ given' = given \cup {<<Top, made + 1>>}
  BY DEF ModuleReturns, EntrypointReturns
<1>3. frames' = Front(frames)
  <2>1. CASE EntrypointReturns
    <3>1. frames' = <<>> /\ Len(frames) = 1
      BY <2>1 DEF EntrypointReturns
    <3>2. Front(frames) = <<>>
      BY <3>1, SubSeqEmpty DEF Front
    <3> QED
      BY <3>1, <3>2
  <2> QED
    BY <2>1 DEF ModuleReturns
<1> QED
  BY <1>1, <1>2, <1>3, MachinePop

LEMMA MachineUnwind == ASSUME MachineOK, Unwind PROVE MachineOK'
<1>1. frames # <<>> /\ frames' = Front(frames)
      /\ UNCHANGED <<bundle, entrypoint, cache, made, given>>
  BY DEF Unwind
<1>2. CASE frames = <<Hook>>
  <2>1. Top = Hook /\ loading = <<>>
    BY <1>1, <1>2, OnTop
  <2>2. UNCHANGED <<loading, policy>>
    BY <2>1 DEF Unwind
  <2>3. Len(frames) = 1
    BY <1>2
  <2>4. frames' = <<>>
    BY <1>1, <2>3, SubSeqEmpty DEF Front
  <2>5. <<>> # <<Hook>> /\ "loaded" # "none"
    OBVIOUS
  <2> QED
    BY <1>1, <1>2, <2>1, <2>2, <2>4, <2>5
    DEF MachineOK, ImportsFollowCalls, StackOfImports, LoadedOnce, GivenIsKept
<1>3. CASE frames # <<Hook>>
  <2>1. Top # Hook
    BY <1>1, <1>3, OnTop
  <2>2. /\ loading' = FinishLoading(Top)
        /\ policy' = (IF Len(frames) = 1 THEN "rejected" ELSE policy)
    BY <2>1 DEF Unwind
  <2> QED
    BY <1>1, <1>3, <2>2, MachinePop
<1> QED
  BY <1>2, <1>3

LEMMA MachineHost ==
    ASSUME MachineOK, LoadBundle \/ BeforeToolCall \/ HookReturns
    PROVE  MachineOK'
<1>1. UNCHANGED <<bundle, entrypoint, policy, cache, made, given>>
  BY DEF LoadBundle, BeforeToolCall, HookReturns
<1>2. entrypoint # Hook /\ Canonical(entrypoint) /\ entrypoint \in bundle
  BY NoModules DEF MachineOK
<1>3. CASE LoadBundle
  <2>1. /\ loading' = <<entrypoint>> /\ frames' = <<entrypoint>>
        /\ policy = "none" /\ frames = <<>>
    BY <1>3 DEF LoadBundle
  <2>2. /\ <<entrypoint>> \in Seq(bundle) /\ Len(<<entrypoint>>) = 1
        /\ <<entrypoint>>[1] = entrypoint /\ <<Hook>>[1] = Hook
    BY <1>2
  <2>3. cache[entrypoint] = 0
    BY <1>2, <2>1 DEF MachineOK, LoadedOnce
  <2>4. frames' # <<Hook>> /\ frames' # <<>>
    BY <1>2, <2>1, <2>2
  <2>5. \A i \in 1 .. Len(loading') : i = 1
    BY <2>1, <2>2
  <2>6. StackOfImports'
    BY <1>1, <2>1, <2>2, <2>3, <2>5 DEF StackOfImports
  <2>7. LoadedOnce' /\ ImportsFollowCalls'
    BY <1>1, <2>1, <2>4 DEF LoadedOnce, ImportsFollowCalls
  <2> QED
    BY <1>1, <2>6, <2>7 DEF MachineOK, GivenIsKept
<1>4. CASE BeforeToolCall
  <2>1. /\ policy = "loaded" /\ frames = <<>> /\ UNCHANGED loading
        /\ frames' = frames \/ frames' = <<Hook>>
    BY <1>4 DEF BeforeToolCall
  <2>2. <<>> # <<Hook>>
    OBVIOUS
  <2>3. loading = <<>>
    BY <2>1, <2>2 DEF MachineOK, ImportsFollowCalls
  <2> QED
    BY <1>1, <2>1, <2>2, <2>3
    DEF MachineOK, ImportsFollowCalls, StackOfImports, LoadedOnce, GivenIsKept
<1>5. CASE HookReturns
  <2>1. Top = Hook /\ frames # <<>> /\ frames' = <<>> /\ UNCHANGED loading
    BY <1>5 DEF HookReturns, Checked, Runs
  <2>2. frames = <<Hook>> /\ loading = <<>>
    BY <2>1, OnTop
  <2>3. <<>> # <<Hook>>
    OBVIOUS
  <2> QED
    BY <1>1, <2>1, <2>2, <2>3
    DEF MachineOK, ImportsFollowCalls, StackOfImports, LoadedOnce, GivenIsKept
<1> QED
  BY <1>3, <1>4, <1>5

LEMMA MachineNext == ASSUME MachineOK, PolicyNext PROVE MachineOK'
<1>1. CASE LuaLoop \/ LuaFail \/ LuaCatch \/ Interrupt
  BY <1>1, MachineElsewhere DEF LuaLoop, LuaFail, LuaCatch, Interrupt
<1> QED
  BY <1>1, MachineRequire, MachineReturns, MachineUnwind, MachineHost DEF PolicyNext, Luau

LEMMA MachineStep == ASSUME MachineOK, [Next]_vars PROVE MachineOK'
<1>1. CASE UNCHANGED policyVars
  BY <1>1, MachineElsewhere DEF policyVars, vm
<1>2. CASE Start \/ Adapter \/ Provide \/ Cancel \/ UNCHANGED vars
  BY <1>1, <1>2
  DEF vars, Start, Adapter, Provide, Cancel, Poll, CheckCancelled, PollFuture, CheckAnswered,
      LuauFails, LuauReturns, YieldsOther, HandlerYields, TaskYields, Resume
<1> QED
  BY <1>2, MachineNext DEF Next

\* bundle_runtime.rs: after any mix of failures, some of which Luau code
\* catches, the import stack is the stack of the modules being evaluated, and a
\* module has one value for all who require it.
THEOREM ModulesConsistent == Spec => []ModulesAreConsistent
<1>1. Init => MachineOK
  BY MachineInit DEF Init
<1>2. MachineOK /\ [Next]_vars => MachineOK'
  BY MachineStep
<1>3. MachineOK => ModulesAreConsistent
  BY DEF MachineOK, ModulesAreConsistent, OneValuePerModule, GivenIsKept
<1> QED
  BY <1>1, <1>2, <1>3, PTL DEF Spec

-----------------------------------------------------------------------------
(* The call: the invariant. *)

States == {"none", "working", "ready", "failed"}

\* The host future is for the last request that was issued.
OwnRequest ==
    /\ pending \in [state : States, id : Nat, asks : Asked \cup {"none"}, polled : BOOLEAN]
    /\ issued \in Seq(Asked) /\ performed \in Seq(Asked)
    /\ pending.state # "none" => /\ pending.id = Len(issued) /\ issued # <<>>
                                 /\ pending.asks = issued[Len(issued)]

\* A request is waiting for its answer, has an answer that waits for the
\* coroutine, or was answered.
Conversing ==
    /\ \E n \in Nat : delivered = [i \in 1 .. n |-> i]
    /\ answer \in Nat
    /\ call # "settled" =>
         /\ pending.state # "none" => answer = 0 /\ Len(issued) = Len(delivered) + 1
         /\ pending.state = "none" /\ answer # 0 =>
              answer = Len(issued) /\ Len(issued) = Len(delivered) + 1
         /\ pending.state = "none" /\ answer = 0 => Len(issued) = Len(delivered)
    /\ call \in {"settled", "resume", "answered"} => pending.state = "none"

\* What was performed was asked for, and authorized; a request that is still
\* waiting was not performed.
Performing ==
    /\ Len(performed) <= Len(issued)
    /\ pending.state = "working" => Len(performed) < Len(issued)
    /\ \A i \in 1 .. Len(performed) : Authorized(performed[i].operation)

\* The handler asks for what it declared, as often as it may.
Limited ==
    adapter = "handler" =>
        /\ Len(issued) <= MaxCalls
        /\ \A i \in 1 .. Len(issued) : issued[i].capability = Declared
        /\ \A i \in 1 .. Len(performed) : performed[i].capability = Declared

CallOK == OwnRequest /\ Conversing /\ Performing /\ Limited

-----------------------------------------------------------------------------
(* The call: every step preserves the invariant. *)

LEMMA CallInit == Init => CallOK
<1> SUFFICES ASSUME Init PROVE CallOK
  OBVIOUS
<1>1. /\ call = "none" /\ pending = NoFuture /\ answer = 0
      /\ issued = <<>> /\ delivered = <<>> /\ performed = <<>>
  BY DEF Init
<1>2. /\ <<>> \in Seq(Asked) /\ Len(<<>>) = 0 /\ <<>> = [i \in 1 .. 0 |-> i]
      /\ 0 \in Nat /\ MaxCalls \in Nat /\ 1 .. 0 = {}
  BY CallsAssumption
<1>3. pending.state = "none"
  BY <1>1 DEF NoFuture
<1>4. pending \in [state : States, id : Nat, asks : Asked \cup {"none"}, polled : BOOLEAN]
  BY <1>1 DEF NoFuture, States
<1>5. OwnRequest /\ Performing
  BY <1>1, <1>2, <1>3, <1>4 DEF OwnRequest, Performing
<1>6. Conversing
  BY <1>1, <1>2, <1>3 DEF Conversing
<1>7. Limited
  BY <1>1, <1>2 DEF Limited
<1> QED
  BY <1>5, <1>6, <1>7 DEF CallOK

\* Lengths are numbers.
LEMMA CallLengths ==
    ASSUME CallOK
    PROVE  /\ Len(issued) \in Nat /\ Len(delivered) \in Nat /\ Len(performed) \in Nat
           /\ delivered = [i \in 1 .. Len(delivered) |-> i]
<1>1. PICK n \in Nat : delivered = [i \in 1 .. n |-> i]
  BY DEF CallOK, Conversing
<1>2. Len(delivered) = n
  BY <1>1
<1> QED
  BY <1>1, <1>2, LenProperties DEF CallOK, OwnRequest

\* A step that asks nothing, delivers nothing and performs nothing.
LEMMA CallKept ==
    ASSUME CallOK, UNCHANGED <<adapter, manifest, issued, delivered, performed>>,
           pending' \in [state : States, id : Nat, asks : Asked \cup {"none"}, polled : BOOLEAN],
           answer' \in Nat,
           pending'.state # "none" => /\ pending'.id = pending.id /\ pending'.asks = pending.asks
                                      /\ pending'.state = pending.state,
           call' # "settled" =>
             /\ pending'.state # "none" => answer' = 0 /\ Len(issued) = Len(delivered) + 1
             /\ pending'.state = "none" /\ answer' # 0 =>
                  answer' = Len(issued) /\ Len(issued) = Len(delivered) + 1
             /\ pending'.state = "none" /\ answer' = 0 => Len(issued) = Len(delivered),
           call' \in {"settled", "resume", "answered"} => pending'.state = "none"
    PROVE  CallOK'
<1>1. (\A i \in 1 .. Len(performed) : Authorized(performed[i].operation))'
  BY DEF CallOK, Performing, Authorized, Grant
<1>2. Limited'
  BY DEF CallOK, Limited
<1>3. OwnRequest'
  BY DEF CallOK, OwnRequest
<1>4. Performing'
  BY <1>1 DEF CallOK, Performing
<1>5. Conversing'
  <2>1. \E n \in Nat : delivered' = [i \in 1 .. n |-> i]
    BY DEF CallOK, Conversing
  <2> QED
    BY <2>1 DEF Conversing
<1> QED
  BY <1>2, <1>3, <1>4, <1>5 DEF CallOK

\* The call settles, and drops its host future.
LEMMA CallSettles ==
    ASSUME CallOK, UNCHANGED <<adapter, manifest, issued, delivered, performed>>,
           answer' = answer \/ answer' = Received \/ answer' = 0,
           call' = "settled", pending' = NoFuture
    PROVE  CallOK'
<1>1. /\ pending' \in [state : States, id : Nat, asks : Asked \cup {"none"}, polled : BOOLEAN]
      /\ pending'.state = "none"
  BY DEF NoFuture, States
<1>2. answer' \in Nat
  BY DEF CallOK, Conversing, OwnRequest, Received
<1> QED
  BY <1>1, <1>2, CallKept

\* The future stays what it is.
LEMMA CallGoesOn ==
    ASSUME CallOK, UNCHANGED <<adapter, manifest, issued, delivered, performed, pending, answer>>,
           call # "settled" \/ call' = "settled",
           call' \in {"settled", "resume", "answered"} => pending.state = "none"
    PROVE  CallOK'
<1>1. /\ pending' \in [state : States, id : Nat, asks : Asked \cup {"none"}, polled : BOOLEAN]
      /\ answer' \in Nat
  BY DEF CallOK, OwnRequest, Conversing
<1>2. call' # "settled" =>
         /\ pending'.state # "none" => answer' = 0 /\ Len(issued) = Len(delivered) + 1
         /\ pending'.state = "none" /\ answer' # 0 =>
              answer' = Len(issued) /\ Len(issued) = Len(delivered) + 1
         /\ pending'.state = "none" /\ answer' = 0 => Len(issued) = Len(delivered)
  BY DEF CallOK, Conversing
<1> QED
  BY <1>1, <1>2, CallKept

LEMMA CallStarts ==
    ASSUME CallOK, Start \/ Poll \/ CheckCancelled \/ CheckAnswered
    PROVE  CallOK'
<1> USE DEF Start, Poll, CheckCancelled, CheckAnswered, GoOn
<1>1. UNCHANGED <<adapter, manifest, issued, delivered, performed, answer>>
  OBVIOUS
<1>2. (call' = "settled" /\ pending' = NoFuture) \/ (UNCHANGED pending /\ call' # "settled")
  BY DEF Settle
<1>3. call # "settled"
  OBVIOUS
<1>4. (UNCHANGED pending /\ call' \in {"resume", "answered"}) => pending.state = "none"
  BY DEF Settle, CallOK, Conversing
<1> QED
  BY <1>1, <1>2, <1>3, <1>4, CallSettles, CallGoesOn

LEMMA CallPollsFuture == ASSUME CallOK, PollFuture PROVE CallOK'
<1>1. /\ UNCHANGED <<adapter, manifest, issued, delivered, performed>>
      /\ call = "future" /\ answer' = Received
  BY DEF PollFuture
<1>2. CASE call' = "settled" /\ pending' = NoFuture
  BY <1>1, <1>2, CallSettles
<1>3. CASE pending.state = "none" /\ call' = "resume" /\ UNCHANGED pending
  BY <1>1, <1>3, CallGoesOn DEF Received
<1>4. CASE pending.state = "working" /\ call' = "idle"
           /\ pending' = [pending EXCEPT !.polled = TRUE]
  <2>1. /\ pending' \in [state : States, id : Nat, asks : Asked \cup {"none"}, polled : BOOLEAN]
        /\ pending'.state = "working" /\ pending'.id = pending.id
        /\ pending'.asks = pending.asks
    BY <1>4 DEF CallOK, OwnRequest
  <2>2. answer' = 0 /\ answer' \in Nat /\ Len(issued) = Len(delivered) + 1
    BY <1>1, <1>4 DEF CallOK, Conversing, Received
  <2> QED
    BY <1>1, <1>4, <2>1, <2>2, CallKept
<1>5. CASE pending.state = "ready" /\ call' \in {"top", "answered"} /\ pending' = NoFuture
  <2>1. /\ pending' \in [state : States, id : Nat, asks : Asked \cup {"none"}, polled : BOOLEAN]
        /\ pending'.state = "none"
    BY <1>5 DEF NoFuture, States
  <2>2. /\ answer' = Len(issued) /\ answer' \in Nat
        /\ Len(issued) = Len(delivered) + 1 /\ answer' # 0
    <3>1. answer' = Len(issued) /\ Len(issued) = Len(delivered) + 1
      BY <1>1, <1>5 DEF CallOK, OwnRequest, Conversing, Received
    <3> QED
      BY <3>1, CallLengths
  <2> QED
    BY <1>1, <1>5, <2>1, <2>2, CallKept
<1> QED
  BY <1>2, <1>3, <1>4, <1>5 DEF PollFuture, Settle, GoOn, CallOK, OwnRequest, States

\* The coroutine is resumed: what it waited for is delivered.
LEMMA Delivers ==
    ASSUME CallOK, Resume
    PROVE  /\ call = "resume" /\ pending.state = "none" /\ answer' = 0
           /\ Len(delivered') = Len(issued) /\ delivered' = [i \in 1 .. Len(issued) |-> i]
           /\ UNCHANGED <<adapter, manifest, performed>>
<1>1. /\ call = "resume" /\ answer' = 0 /\ UNCHANGED <<adapter, manifest, performed>>
      /\ delivered' = (IF answer = 0 THEN delivered ELSE Append(delivered, answer))
  BY DEF Resume
<1>2. /\ pending.state = "none" /\ answer \in Nat
      /\ answer # 0 => answer = Len(issued) /\ Len(issued) = Len(delivered) + 1
      /\ answer = 0 => Len(issued) = Len(delivered)
  BY <1>1 DEF CallOK, Conversing
<1>3. CASE answer = 0
  BY <1>1, <1>2, <1>3, CallLengths
<1>4. CASE answer # 0
  <2> DEFINE n == Len(delivered)
  <2>1. n \in Nat /\ delivered = [i \in 1 .. n |-> i] /\ answer = n + 1 /\ Len(issued) = n + 1
    BY <1>2, <1>4, CallLengths
  <2> HIDE DEF n
  <2>2. Append([i \in 1 .. n |-> i], n + 1) = [i \in 1 .. n + 1 |-> i]
    BY <2>1
  <2>3. delivered' = [i \in 1 .. n + 1 |-> i]
    BY <1>1, <1>4, <2>1, <2>2
  <2>4. Len([i \in 1 .. n + 1 |-> i]) = n + 1
    BY <2>1
  <2> QED
    BY <1>1, <1>2, <2>1, <2>3, <2>4
<1> QED
  BY <1>3, <1>4

\* The coroutine ends.
LEMMA CallEnds ==
    ASSUME CallOK, Resume, call' = "settled", pending' = NoFuture, UNCHANGED issued
    PROVE  CallOK'
<1>1. /\ pending' \in [state : States, id : Nat, asks : Asked \cup {"none"}, polled : BOOLEAN]
      /\ pending'.state = "none"
  BY DEF NoFuture, States
<1>2. (\A i \in 1 .. Len(performed) : Authorized(performed[i].operation))'
  BY Delivers DEF CallOK, Performing, Authorized, Grant
<1>3. Performing' /\ Limited' /\ OwnRequest'
  BY <1>1, <1>2, Delivers DEF CallOK, Performing, Limited, OwnRequest
<1>4. Conversing'
  <2>1. Len(issued) \in Nat /\ answer' = 0 /\ 0 \in Nat
        /\ delivered' = [i \in 1 .. Len(issued) |-> i]
    BY Delivers, CallLengths
  <2> QED
    BY <1>1, <2>1 DEF Conversing
<1> QED
  BY <1>3, <1>4 DEF CallOK

\* It asks for something.
LEMMA CallIssues ==
    ASSUME CallOK, Resume, NEW asks \in Asked, Issue(asks),
           adapter = "handler" => asks.capability = Declared /\ Len(issued) # MaxCalls
    PROVE  CallOK'
<1> DEFINE n == Len(issued)
<1>1. /\ n \in Nat /\ issued \in Seq(Asked) /\ Len(performed) \in Nat
      /\ Len(performed) <= n /\ performed \in Seq(Asked)
  BY CallLengths DEF CallOK, OwnRequest, Performing
<1>2. /\ call' = "top" /\ issued' = Append(issued, asks)
      /\ pending' = [state |-> "working", id |-> n + 1, asks |-> asks, polled |-> FALSE]
  BY DEF Issue, GoOn
<1>3. /\ issued' \in Seq(Asked) /\ Len(issued') = n + 1 /\ issued' # <<>>
      /\ \A i \in 1 .. n : issued'[i] = issued[i]
      /\ issued'[n + 1] = asks
  BY <1>1, <1>2, AppendProperties
<1>4. /\ UNCHANGED <<adapter, manifest, performed>> /\ answer' = 0
      /\ Len(delivered') = n /\ delivered' = [i \in 1 .. n |-> i]
  BY Delivers
<1>5. /\ pending' \in [state : States, id : Nat, asks : Asked \cup {"none"}, polled : BOOLEAN]
      /\ pending'.state = "working" /\ pending'.id = n + 1 /\ pending'.asks = asks
  BY <1>1, <1>2 DEF States
<1> HIDE DEF n
<1>6. OwnRequest'
  BY <1>1, <1>3, <1>4, <1>5 DEF OwnRequest
<1>7. Conversing'
  BY <1>1, <1>2, <1>3, <1>4, <1>5 DEF Conversing
<1>8. (\A i \in 1 .. Len(performed) : Authorized(performed[i].operation))'
  BY <1>4 DEF CallOK, Performing, Authorized, Grant
<1>9. Performing'
  BY <1>1, <1>3, <1>4, <1>8 DEF Performing
<1>10. Limited'
  <2>1. ASSUME adapter = "handler"
        PROVE  /\ n + 1 <= MaxCalls
               /\ \A i \in 1 .. n : issued[i].capability = Declared
               /\ \A i \in 1 .. Len(performed) : performed[i].capability = Declared
    BY <1>1, <2>1, CallsAssumption DEF CallOK, Limited, n
  <2>2. ASSUME adapter = "handler", NEW i \in 1 .. n + 1
        PROVE  issued'[i].capability = Declared
    BY <1>1, <1>3, <2>1, <2>2
  <2> QED
    BY <1>3, <1>4, <2>1, <2>2 DEF Limited
<1> QED
  BY <1>6, <1>7, <1>9, <1>10 DEF CallOK

LEMMA CallResumes ==
    ASSUME CallOK, LuauFails \/ LuauReturns \/ YieldsOther \/ HandlerYields \/ TaskYields
    PROVE  CallOK'
<1>1. Resume
  BY DEF LuauFails, LuauReturns, YieldsOther, HandlerYields, TaskYields
<1>2. CASE LuauFails \/ LuauReturns \/ YieldsOther
  BY <1>1, <1>2, CallEnds DEF LuauFails, LuauReturns, YieldsOther, Settle
<1>3. CASE HandlerYields
  <2>1. PICK asks \in Asked :
           IF asks.capability # Declared THEN Settle("blocked") /\ UNCHANGED issued
           ELSE IF Len(issued) = MaxCalls THEN Settle("failed") /\ UNCHANGED issued
           ELSE Issue(asks)
    BY <1>3 DEF HandlerYields
  <2>2. CASE Settle("blocked") \/ Settle("failed")
    BY <1>1, <2>1, <2>2, CallEnds DEF Settle, Issue, GoOn
  <2>3. CASE asks.capability = Declared /\ Len(issued) # MaxCalls
    BY <1>1, <2>1, <2>3, CallIssues
  <2> QED
    BY <2>1, <2>2, <2>3
<1>4. CASE TaskYields
  <2>1. PICK asks \in Asked :
           IF cancelled THEN Settle("cancelled") /\ UNCHANGED issued ELSE Issue(asks)
    BY <1>4 DEF TaskYields
  <2>2. adapter # "handler"
    BY <1>4 DEF TaskYields
  <2> QED
    BY <1>1, <2>1, <2>2, CallEnds, CallIssues DEF Settle
<1> QED
  BY <1>2, <1>3, <1>4

LEMMA CallProvides == ASSUME CallOK, Provide PROVE CallOK'
<1>1. /\ pending.state = "working"
      /\ UNCHANGED <<adapter, manifest, call, answer, issued, delivered>>
  BY DEF Provide
<1>2. PICK state \in {"failed", "ready"} : pending' = [pending EXCEPT !.state = state]
  BY DEF Provide
<1>3. /\ pending' \in [state : States, id : Nat, asks : Asked \cup {"none"}, polled : BOOLEAN]
      /\ pending'.state = state /\ pending'.id = pending.id /\ pending'.asks = pending.asks
  BY <1>2 DEF CallOK, OwnRequest, States
<1>4. /\ Len(performed) \in Nat /\ Len(issued) \in Nat /\ Len(performed) < Len(issued)
      /\ performed \in Seq(Asked) /\ issued \in Seq(Asked)
      /\ pending.id = Len(issued) /\ pending.asks = issued[Len(issued)]
  BY <1>1, CallLengths DEF CallOK, OwnRequest, Performing
<1>5. Conversing'
  BY <1>1, <1>3 DEF CallOK, Conversing
<1>6. CASE performed' = performed
  <2>1. (\A i \in 1 .. Len(performed) : Authorized(performed[i].operation))'
    BY <1>1, <1>6 DEF CallOK, Performing, Authorized, Grant
  <2> QED
    BY <1>1, <1>3, <1>4, <1>5, <1>6, <2>1
    DEF CallOK, OwnRequest, Performing, Limited
<1>7. CASE Authorized(pending.asks.operation) /\ performed' = Append(performed, pending.asks)
  <2> DEFINE n == Len(performed)
             asks == pending.asks
  <2>1. asks \in Asked /\ asks = issued[Len(issued)] /\ Len(issued) \in 1 .. Len(issued)
    BY <1>4, ElementOfSeq
  <2> HIDE DEF asks
  <2>2. /\ performed' \in Seq(Asked) /\ Len(performed') = n + 1
        /\ \A i \in 1 .. n : performed'[i] = performed[i]
        /\ performed'[n + 1] = asks
    BY <1>4, <1>7, <2>1, AppendProperties DEF asks
  <2>3. n \in Nat /\ n + 1 <= Len(issued)
    BY <1>4
  <2> HIDE DEF n
  <2>4. OwnRequest'
    BY <1>1, <1>3, <1>4, <2>2 DEF CallOK, OwnRequest
  <2>5. (\A i \in 1 .. Len(performed) : Authorized(performed[i].operation))'
    <3>1. \A i \in 1 .. n + 1 : Authorized(performed'[i].operation)
      BY <1>7, <2>2, <2>3 DEF CallOK, Performing, n, asks
    <3> QED
      BY <1>1, <2>2, <3>1 DEF Authorized, Grant
  <2>6. Performing'
    BY <1>1, <1>3, <2>2, <2>3, <2>5 DEF Performing
  <2>7. Limited'
    <3>1. ASSUME adapter = "handler", NEW i \in 1 .. n + 1
          PROVE  performed'[i].capability = Declared
      <4>1. asks.capability = Declared /\ \A j \in 1 .. n : performed[j].capability = Declared
        BY <2>1, <3>1 DEF CallOK, Limited, n
      <4> QED
        BY <2>2, <2>3, <3>1, <4>1
    <3> QED
      BY <1>1, <2>2, <3>1 DEF CallOK, Limited
  <2> QED
    BY <1>5, <2>4, <2>6, <2>7 DEF CallOK
<1> QED
  BY <1>6, <1>7 DEF Provide

LEMMA CallStep == ASSUME CallOK, [Next]_vars PROVE CallOK'
<1>1. CASE UNCHANGED callVars \/ Cancel
  <2>1. UNCHANGED <<adapter, manifest, issued, delivered, performed, pending, answer, call>>
    BY <1>1 DEF callVars, Cancel
  <2> QED
    BY <2>1, CallGoesOn DEF CallOK, Conversing
<1> QED
  BY <1>1, CallStarts, CallPollsFuture, CallResumes, CallProvides DEF Next, Adapter, vars

LEMMA GrantedInvariant == Spec => []CallOK
<1>1. Init => CallOK
  BY CallInit
<1>2. CallOK /\ [Next]_vars => CallOK'
  BY CallStep
<1> QED
  BY <1>1, <1>2, PTL DEF Spec

\* capability/gate.rs, async_runtime.rs and tool_handler/runtime.rs: whatever
\* Luau asks for, only what the manifest grants is performed, a handler asks
\* for no more than it declared, and the coroutine gets every answer once, in
\* the order of its requests.
THEOREM AnswersGranted == Spec => []AnswersAreGranted
<1>1. CallOK => OnlyGranted
  <2> SUFFICES ASSUME CallOK PROVE OnlyGranted
    OBVIOUS
  <2>1. DOMAIN performed = 1 .. Len(performed)
    BY LenProperties DEF CallOK, OwnRequest
  <2> QED
    BY <2>1, CallLengths, CallsAssumption
    DEF OnlyGranted, CallOK, OwnRequest, Performing, Limited
<1>2. CallOK => AnswersInOrder
  <2> SUFFICES ASSUME CallOK PROVE AnswersInOrder
    OBVIOUS
  <2>1. delivered = [i \in DOMAIN delivered |-> i]
    BY CallLengths
  <2> QED
    BY <2>1, CallLengths DEF AnswersInOrder, CallOK, Conversing
<1> QED
  BY <1>1, <1>2, GrantedInvariant, PTL DEF AnswersAreGranted

\* Dropping the future of a call drops the host future it owns (LuauTask and
\* LuaToolExecution): after it has settled, nothing of it is performed.
THEOREM SettledOwnsNothing == Spec => NothingAfterSettling
<1>1. CallOK /\ [Next]_vars => [call = "settled" => UNCHANGED performed]_vars
  <2> SUFFICES ASSUME CallOK, [Next]_vars, call = "settled" PROVE performed' = performed
    BY DEF vars, callVars
  <2>1. pending.state = "none"
    BY DEF CallOK, Conversing
  <2> QED
    BY <2>1
    DEF Next, vars, callVars, Start, Adapter, Provide, Cancel, Poll, CheckCancelled, PollFuture,
        CheckAnswered, LuauFails, LuauReturns, YieldsOther, HandlerYields, TaskYields, Resume
<1> QED
  BY <1>1, GrantedInvariant, PTL DEF Spec, NothingAfterSettling
=============================================================================
