-------------------------- MODULE PlaygroundProofs --------------------------
(***************************************************************************)
(* Proofs about Playground, for any languages of the table, any test cases *)
(* and filters, any server and any number of runs.                         *)
(***************************************************************************)
EXTENDS Playground, FunctionTheorems, FiniteSetTheorems,
        WellFoundedInduction, TLAPS

\* What the play page keeps together: at most one run is in flight, it is the
\* last one and the button knows, and its language is the selected one unless
\* the user moved on.
PlayInv ==
  /\ lang \in Langs /\ code \in Codes /\ stdin \in {"", "typed"}
  /\ output \in Outputs /\ rawJson \in 0..MaxRuns
  /\ showRaw \in BOOLEAN /\ loading \in BOOLEAN
  /\ posts \subseteq Bodies /\ runs \in 0..MaxRuns /\ moved \in BOOLEAN
  /\ code.lang = lang
  /\ stdin # "" => lang \in hasStdin
  /\ loading <=> posts # {}
  /\ \A p, q \in posts : p = q
  /\ \A p \in posts : p.n = runs /\ (p.language # lang => moved)
  /\ output # NoOutput /\ output.lang # lang => moved
  /\ PostsWhatIsShown
  /\ ShowsLastRun

\* The same for the tests page.
TestsInv ==
  /\ selectedTc \in {NoTest} \union TestCases /\ tcFilter \in Filters
  /\ testOutput \in TestOutputs /\ testLoading \in BOOLEAN
  /\ testPosts \subseteq TestCases /\ testMoved \in BOOLEAN
  /\ testLoading <=> testPosts # {}
  /\ \A t, u \in testPosts : t = u
  /\ \A t \in testPosts : t # selectedTc => testMoved
  /\ testOutput # NoTestOutput /\ testOutput.tc # selectedTc => testMoved

\* The rest has its type.
RestInv ==
  /\ page \in {"play", "bench", "tests"} /\ mounted \in BOOLEAN
  /\ testcases \in {"empty"} \union HandleTestcasesList
  /\ lists \in 0..MaxLists /\ listLost \in BOOLEAN
  /\ conf \in Confs

PInv == PlayInv /\ TestsInv /\ RestInv

------------------------------------------------------------------------------
\* The table of presets is made of two lists of labels per language.
LEMMA PresetsTabled ==
  ASSUME NEW l \in LANGUAGES
  PROVE  \E a, b : /\ Len(a) \in Nat /\ Len(b) \in Nat
                  /\ PRESETS[l] = Presets(a, b)
<1> DEFINE Tabled(f) == \E a, b : /\ Len(a) \in Nat /\ Len(b) \in Nat
                                 /\ PRESETS[f] = Presets(a, b)
<1>1. Tabled("bash")
  BY DEF PRESETS, hello
<1>2. Tabled("c")
  BY DEF PRESETS, hello
<1>3. Tabled("cpp")
  BY DEF PRESETS, hello
<1>4. Tabled("d")
  BY DEF PRESETS, hello
<1>5. Tabled("erl")
  BY DEF PRESETS, hello
<1>6. Tabled("go")
  BY DEF PRESETS, hello
<1>7. Tabled("haskell")
  BY DEF PRESETS, hello
<1>8. Tabled("java")
  BY DEF PRESETS, hello
<1>9. Tabled("js")
  BY DEF PRESETS, hello
<1>10. Tabled("lisp")
  BY DEF PRESETS, hello
<1>11. Tabled("lua")
  BY DEF PRESETS, hello
<1>12. Tabled("ocaml")
  BY DEF PRESETS, hello
<1>13. Tabled("perl")
  BY DEF PRESETS, hello
<1>14. Tabled("py3")
  BY DEF PRESETS, hello
<1>15. Tabled("r")
  BY DEF PRESETS, hello
<1>16. Tabled("rust")
  BY DEF PRESETS, hello
<1>17. Tabled("verilog")
  BY DEF PRESETS, hello
<1> HIDE DEF Tabled
<1>18. Tabled(l)
  BY <1>1, <1>2, <1>3, <1>4, <1>5, <1>6, <1>7, <1>8, <1>9, <1>10, <1>11,
     <1>12, <1>13, <1>14, <1>15, <1>16, <1>17 DEF LANGUAGES
<1> QED
  BY <1>18 DEF Tabled

\* Every preset's stdin is empty or not set.
LEMMA PresetStdin ==
  ASSUME NEW l \in LANGUAGES, NEW i \in DOMAIN PRESETS[l]
  PROVE  PRESETS[l][i].stdin \in {"", Unset}
<1>1. ASSUME NEW a, NEW b, NEW j \in DOMAIN Presets(a, b)
      PROVE  Presets(a, b)[j].stdin \in {"", Unset}
  BY <1>1 DEF Presets
<1> QED
  BY <1>1, PresetsTabled, Zenon

------------------------------------------------------------------------------
(* The names of the preset field.  TLAPS has no induction over data, so both *)
(* inductions below take the least number for which the claim fails.         *)

\* A set of numbers that is not empty has a least one.
LEMMA LeastOf ==
  ASSUME NEW S \in SUBSET Nat, S # {}
  PROVE  \E i \in S : \A k \in S : i <= k
<1> DEFINE R == {ss \in Nat \X Nat : ss[1] < ss[2]}
<1>1. IsWellFoundedOn(R, Nat)
  BY NatLessThanWellFounded DEF OpToRel
<1> HIDE DEF R
<1>2. PICK i \in S : \A k \in S : ~(<<k, i>> \in R)
  BY <1>1, WFMin
<1>3. \A k \in S : ~(k < i)
  BY <1>2 DEF R
<1> QED
  BY <1>3

\* The name flattenPresets gives an option is one that no earlier option has:
\* among more numbers than names, one is free.
LEMMA FreeNameIsFree ==
  ASSUME NEW S, Nat \subseteq S, NEW label \in Seq(S),
         NEW names, IsFiniteSet(names)
  PROVE  FreeName(label, names) \notin names /\ FreeName(label, names) \in Seq(S)
<1> DEFINE card == Cardinality(names)
           numbers == 2..(card + 2)
           free == {k \in numbers : Append(label, k) \notin names}
           First(k) == /\ Append(label, k) \notin names
                       /\ \A m \in 2..(k - 1) : Append(label, m) \in names
<1>1. CASE label \notin names
  BY <1>1 DEF FreeName
<1>2. CASE label \in names
  <2>1. card \in Nat
    BY FS_CardinalityType
  <2>2. free # {}
    <3> SUFFICES ASSUME free = {} PROVE FALSE
      OBVIOUS
    <3> DEFINE f == [k \in numbers |-> Append(label, k)]
    <3>1. f \in [numbers -> names]
      OBVIOUS
    <3>2. IsFiniteSet(numbers) /\ Cardinality(numbers) = card + 1
      <4> HIDE DEF card
      <4>1. 2 \in Int /\ card + 2 \in Int /\ ~(2 > card + 2)
        BY <2>1
      <4>2. (card + 2) - 2 + 1 = card + 1
        BY <2>1
      <4> QED
        BY <4>1, <4>2, FS_Interval
    <3>3. card < Cardinality(numbers)
      BY <2>1, <3>2
    <3> HIDE DEF f, numbers, card
    <3>4. PICK x, y \in numbers : x # y /\ f[x] = f[y]
      BY <3>1, <3>2, <3>3, FS_PigeonHole DEF card
    <3>5. Append(label, x) = Append(label, y)
      BY <3>4 DEF f
    <3>6. x \in S /\ y \in S
      BY <2>1 DEF numbers
    <3>7. /\ Append(label, x)[Len(label) + 1] = x
          /\ Append(label, y)[Len(label) + 1] = y
      BY <3>6
    <3> QED
      BY <3>4, <3>5, <3>7
  <2>3. free \in SUBSET Nat
    BY <2>1
  <2> HIDE DEF card
  <2>4. PICK k \in free : \A m \in free : k <= m
    BY <2>2, <2>3, LeastOf
  <2>5. k \in numbers /\ First(k)
    BY <2>1, <2>4
  <2> DEFINE c == CHOOSE j \in numbers : First(j)
  <2>6. c \in numbers /\ First(c)
    BY <2>5, Zenon
  <2>7. FreeName(label, names) = Append(label, c)
    BY <1>2, Zenon DEF FreeName, card
  <2> HIDE DEF c
  <2>8. c \in S
    BY <2>1, <2>6
  <2> QED
    BY <2>6, <2>7, <2>8
<1> QED
  BY <1>1, <1>2

\* The option that flattenPresets appends for preset p.
Option(result, p) ==
  [name |-> FreeName(p.label, {result[k].name : k \in DOMAIN result}),
   preset |-> p]

\* f is the loop of flattenPresets up to the n-th preset.
IsLoop(f, presets, n) ==
  f = [i \in 0..n |-> IF i = 0 THEN <<>>
                      ELSE Append(f[i - 1], Option(f[i - 1], presets[i]))]

\* The loop's recursion has a solution.
LEMMA LoopExists ==
  ASSUME NEW presets, NEW n \in Nat
  PROVE  \E f : IsLoop(f, presets, n)
<1> DEFINE bad == {m \in Nat : ~\E f : IsLoop(f, presets, m)}
<1> SUFFICES ASSUME bad # {} PROVE FALSE
  OBVIOUS
<1>1. PICK m \in bad : \A k \in bad : m <= k
  BY LeastOf
<1>2. m # 0
  <2> DEFINE f == [i \in 0..0 |-> <<>>]
  <2>1. IsLoop(f, presets, 0)
    BY DEF IsLoop
  <2> QED
    BY <1>1, <2>1
<1>3. m \in Nat /\ m - 1 \in Nat
  BY <1>1, <1>2
<1>4. m - 1 \notin bad
  BY <1>1, <1>3
<1>5. PICK f : IsLoop(f, presets, m - 1)
  BY <1>3, <1>4
<1> DEFINE g == [i \in 0..m |->
                   IF i = m THEN Append(f[m - 1], Option(f[m - 1], presets[m]))
                            ELSE f[i]]
<1>6. \A i \in 0..m : i # 0 => g[i - 1] = f[i - 1]
  BY <1>2, <1>3
<1>7. \A i \in 0..m : i # m =>
        f[i] = IF i = 0 THEN <<>>
               ELSE Append(f[i - 1], Option(f[i - 1], presets[i]))
  <2>1. \A i \in 0..m : i # m => i \in 0..(m - 1)
    BY <1>3
  <2>2. \A i \in 0..(m - 1) :
          f[i] = IF i = 0 THEN <<>>
                 ELSE Append(f[i - 1], Option(f[i - 1], presets[i]))
    BY <1>5, Zenon DEF IsLoop
  <2> QED
    BY <2>1, <2>2, Zenon
<1>8. \A i \in 0..m :
        g[i] = IF i = 0 THEN <<>>
               ELSE Append(g[i - 1], Option(g[i - 1], presets[i]))
  BY <1>2, <1>3, <1>6, <1>7
<1>9. g = [i \in 0..m |-> g[i]]
  OBVIOUS
<1> HIDE DEF g
<1>10. IsLoop(g, presets, m)
  BY <1>8, <1>9 DEF IsLoop
<1> QED
  BY <1>1, <1>10

\* What the loop has after n presets: an option for each, under names that
\* differ.
Flattened(flat, presets, n) ==
  /\ DOMAIN flat = 1..n
  /\ \A i \in 1..n : flat[i].preset = presets[i]
  /\ \A i, k \in 1..n : flat[i].name = flat[k].name => i = k

\* A list of labels over S, each with whatever else a preset has.
IsPresetList(presets, S) ==
  /\ presets \in Seq({presets[i] : i \in DOMAIN presets})
  /\ \A i \in DOMAIN presets : presets[i].label \in Seq(S)

\* One more preset keeps the options in order and apart.
LEMMA OptionAdded ==
  ASSUME NEW S, Nat \subseteq S, NEW P, NEW n \in Nat, NEW presets,
         NEW result \in Seq([name : Seq(S), preset : P]),
         Flattened(result, presets, n),
         presets[n + 1] \in P, presets[n + 1].label \in Seq(S)
  PROVE  LET more == Append(result, Option(result, presets[n + 1]))
         IN  /\ more \in Seq([name : Seq(S), preset : P])
             /\ Flattened(more, presets, n + 1)
<1> DEFINE p == presets[n + 1]
           names == {result[k].name : k \in DOMAIN result}
           option == Option(result, p)
           more == Append(result, option)
<1>1. Len(result) = n /\ DOMAIN result = 1..n
  BY DEF Flattened
<1>2. IsFiniteSet(names)
  <2> DEFINE f == [k \in 1..n |-> result[k].name]
  <2>1. f \in Surjection(1..n, names)
    BY <1>1 DEF Surjection
  <2>2. IsFiniteSet(1..n)
    BY FS_Interval
  <2> QED
    BY <2>1, <2>2, FS_Surjection
<1> HIDE DEF names
<1>3. option.name \notin names /\ option.name \in Seq(S) /\ option.preset = p
  <2>1. option = [name |-> FreeName(p.label, names), preset |-> p]
    BY Zenon DEF Option, names
  <2>2. option.name = FreeName(p.label, names) /\ option.preset = p
    BY <2>1
  <2>3. FreeName(p.label, names) \notin names /\ FreeName(p.label, names) \in Seq(S)
    BY <1>2, FreeNameIsFree
  <2> QED
    BY <2>2, <2>3
<1>4. option \in [name : Seq(S), preset : P]
  <2>1. FreeName(p.label, names) \in Seq(S)
    BY <1>2, FreeNameIsFree
  <2>2. option = [name |-> FreeName(p.label, names), preset |-> p]
    BY Zenon DEF Option, names
  <2> QED
    BY <2>1, <2>2
<1> HIDE DEF option
<1>5. more \in Seq([name : Seq(S), preset : P])
  BY <1>4
<1>6. /\ DOMAIN more = 1..(n + 1) /\ more[n + 1] = option
      /\ \A i \in 1..n : more[i] = result[i]
  BY <1>1, <1>4
<1>7. \A i \in 1..n : more[i].name \in names
  BY <1>1, <1>6 DEF names
<1> HIDE DEF more
<1>8. \A i, k \in 1..n : more[i].name = more[k].name => i = k
  BY <1>6 DEF Flattened
<1>9. \A i \in 1..n : more[i].name # more[n + 1].name
  BY <1>3, <1>6, <1>7
<1>10. \A i \in 1..(n + 1) : i \in 1..n \/ i = n + 1
  OBVIOUS
<1>11. \A i, k \in 1..(n + 1) : more[i].name = more[k].name => i = k
  BY <1>8, <1>9, <1>10
<1>12. \A i \in 1..(n + 1) : more[i].preset = presets[i]
  BY <1>3, <1>6, <1>10 DEF Flattened
<1>13. Flattened(more, presets, n + 1)
  BY <1>6, <1>11, <1>12 DEF Flattened
<1> QED
  BY <1>5, <1>13 DEF more, option

\* flattenPresets gives each preset an option of its own.
LEMMA FlattenNames ==
  ASSUME NEW S, Nat \subseteq S, NEW presets, IsPresetList(presets, S)
  PROVE  /\ flattenPresets(presets) \in
              Seq([name : Seq(S), preset : {presets[i] : i \in DOMAIN presets}])
         /\ Flattened(flattenPresets(presets), presets, Len(presets))
<1> DEFINE N == Len(presets)
           P == {presets[i] : i \in DOMAIN presets}
           O == [name : Seq(S), preset : P]
           f == CHOOSE f : IsLoop(f, presets, N)
<1>1. N \in Nat /\ DOMAIN presets = 1..N
  BY DEF IsPresetList
<1>2. IsLoop(f, presets, N)
  BY <1>1, LoopExists, Zenon
<1>3. flattenPresets(presets) = f[N]
  BY Zenon DEF flattenPresets, IsLoop, Option
<1> HIDE DEF f
<1> DEFINE bad == {n \in 0..N : ~(f[n] \in Seq(O) /\ Flattened(f[n], presets, n))}
<1>4. bad = {}
  <2> SUFFICES ASSUME bad # {} PROVE FALSE
    OBVIOUS
  <2>1. bad \in SUBSET Nat
    BY <1>1
  <2>2. PICK m \in bad : \A k \in bad : m <= k
    BY <2>1, LeastOf
  <2>3. m # 0
    <3>1. f[0] = <<>>
      BY <1>1, <1>2 DEF IsLoop
    <3>2. <<>> \in Seq(O) /\ Flattened(<<>>, presets, 0)
      BY DEF Flattened
    <3> QED
      BY <3>1, <3>2
  <2> DEFINE n == m - 1
  <2>4. /\ m \in 1..N /\ n \in Nat /\ n \in 0..N /\ n + 1 = m
        /\ n \notin bad
    BY <1>1, <2>2, <2>3
  <2> HIDE DEF n
  <2>5. f[n] \in Seq(O) /\ Flattened(f[n], presets, n)
    BY <2>4
  <2>6. f[m] = Append(f[n], Option(f[n], presets[m]))
    BY <1>1, <1>2, <2>3, <2>4 DEF IsLoop, n
  <2>7. presets[m] \in P /\ presets[m].label \in Seq(S)
    BY <1>1, <2>4 DEF IsPresetList
  <2> HIDE DEF P
  <2>8. f[m] \in Seq(O) /\ Flattened(f[m], presets, m)
    <3> DEFINE more == Append(f[n], Option(f[n], presets[n + 1]))
    <3>1. more \in Seq(O) /\ Flattened(more, presets, n + 1)
      <4>1. presets[n + 1] \in P /\ presets[n + 1].label \in Seq(S)
        BY <2>4, <2>7
      <4> QED
        BY <2>4, <2>5, <4>1, OptionAdded, Zenon
    <3> QED
      BY <2>4, <2>6, <3>1, Zenon
  <2> QED
    BY <2>2, <2>8
<1>5. f[N] \in Seq(O) /\ Flattened(f[N], presets, N)
  <2>1. N \in 0..N
    BY <1>1
  <2> QED
    BY <1>4, <2>1, Zenon
<1> QED
  BY <1>3, <1>5

\* The names differ, so the first option of a name is the only one.
LEMMA ListFindsItsOwn ==
  ASSUME NEW S, Nat \subseteq S, NEW presets, IsPresetList(presets, S)
  PROVE  EachFindsItsOwn(presets)
<1> DEFINE flat == flattenPresets(presets)
           N == Len(presets)
           O == [name : Seq(S), preset : {presets[i] : i \in DOMAIN presets}]
<1>1. flat \in Seq(O) /\ Flattened(flat, presets, N)
  BY FlattenNames
<1>2. N \in Nat
  BY DEF IsPresetList
<1> HIDE DEF flat, N
<1>3. Len(flat) = N /\ DOMAIN flat = 1..N
  BY <1>1, <1>2 DEF Flattened
<1>4. ASSUME NEW i \in DOMAIN flat
      PROVE  Find(flat, flat[i].name) = i /\ flat[i].preset = presets[i]
  <2> DEFINE Hit(j) == /\ flat[j].name = flat[i].name
                       /\ \A k \in 1..(j - 1) : flat[k].name # flat[i].name
  <2>1. Hit(i)
    BY <1>1, <1>2, <1>3, <1>4 DEF Flattened
  <2>2. \A j \in DOMAIN flat : Hit(j) => j = i
    BY <1>1, <1>3, <1>4 DEF Flattened
  <2>3. (CHOOSE j \in DOMAIN flat : Hit(j)) = i
    BY <1>4, <2>1, <2>2
  <2>4. Find(flat, flat[i].name) = i
    BY <2>3, Zenon DEF Find
  <2> QED
    BY <2>4, <1>1, <1>3, <1>4 DEF Flattened
<1> QED
  BY <1>3, <1>4 DEF EachFindsItsOwn, flat, N

\* What the model keeps of a label is a sequence over these.
Parts(a, b) == Nat \union {a[i] : i \in 1..Len(a)} \union {b[i] : i \in 1..Len(b)}

\* The presets of a language are a list of labels.
LEMMA TableIsPresetList ==
  ASSUME NEW a, NEW b, Len(a) \in Nat, Len(b) \in Nat
  PROVE  IsPresetList(Presets(a, b), Parts(a, b))
<1> DEFINE presets == Presets(a, b)
           Label(i) == IF i <= Len(a) THEN <<a[i]>> ELSE <<b[i - Len(a)]>>
<1>1. DOMAIN presets = 1..(Len(a) + Len(b))
  BY Zenon DEF Presets
<1>2. presets = [i \in 1..(Len(a) + Len(b)) |-> presets[i]]
  BY Zenon DEF Presets
<1>3. \A i \in 1..(Len(a) + Len(b)) : presets[i].label = Label(i)
  BY Zenon DEF Presets
<1>4. ASSUME NEW i \in 1..(Len(a) + Len(b))
      PROVE  Label(i) \in Seq(Parts(a, b))
  <2>1. \A x \in Parts(a, b) : <<x>> \in Seq(Parts(a, b))
    OBVIOUS
  <2>2. CASE i <= Len(a)
    <3>1. i \in 1..Len(a)
      BY <2>2
    <3>2. a[i] \in Parts(a, b)
      BY <3>1, Zenon DEF Parts
    <3> QED
      BY <2>1, <2>2, <3>2, Zenon
  <2>3. CASE ~(i <= Len(a))
    <3>1. i - Len(a) \in 1..Len(b)
      BY <2>3
    <3>2. b[i - Len(a)] \in Parts(a, b)
      BY <3>1, Zenon DEF Parts
    <3> QED
      BY <2>1, <2>3, <3>2, Zenon
  <2> QED
    BY <2>2, <2>3
<1> HIDE DEF presets, Label
<1>5. presets \in Seq({presets[i] : i \in DOMAIN presets})
  BY <1>1, <1>2
<1>6. \A i \in DOMAIN presets : presets[i].label \in Seq(Parts(a, b))
  BY <1>1, <1>3, <1>4
<1> QED
  BY <1>5, <1>6 DEF IsPresetList, presets

\* Each option of a language finds its own preset.
LEMMA TableFindsItsOwn ==
  ASSUME NEW l \in LANGUAGES
  PROVE  EachFindsItsOwn(PRESETS[l])
<1>1. PICK a, b : /\ Len(a) \in Nat /\ Len(b) \in Nat
                  /\ PRESETS[l] = Presets(a, b)
  BY PresetsTabled
<1>2. IsPresetList(PRESETS[l], Parts(a, b))
  BY <1>1, TableIsPresetList
<1>3. Nat \subseteq Parts(a, b)
  BY DEF Parts
<1> QED
  BY <1>2, <1>3, ListFindsItsOwn

\* And so do those of the awkward lists.
LEMMA AwkwardListsFind == AwkwardListsWork
<1> DEFINE S == Nat \union {"a", "b"}
           L == {<<"a">>, <<"a", 2>>, <<"b">>}
<1>1. L \subseteq Seq(S)
  OBVIOUS
<1> HIDE DEF S, L
<1> SUFFICES ASSUME NEW k \in 0..4, NEW labels \in [1..k -> L]
             PROVE  EachFindsItsOwn([i \in DOMAIN labels |->
                      [label |-> labels[i], stdin |-> Unset]])
  BY Zenon DEF AwkwardListsWork, AwkwardLists, L
<1> DEFINE presets == [i \in DOMAIN labels |->
                         [label |-> labels[i], stdin |-> Unset]]
<1>2. IsPresetList(presets, S)
  <2>1. DOMAIN presets = 1..k /\ k \in Nat
    OBVIOUS
  <2>2. \A i \in 1..k : presets[i].label = labels[i]
    OBVIOUS
  <2>3. \A i \in 1..k : labels[i] \in Seq(S)
    BY <1>1
  <2>4. presets = [i \in 1..k |-> presets[i]]
    BY <2>1
  <2> HIDE DEF presets
  <2>5. presets \in Seq({presets[i] : i \in DOMAIN presets})
    BY <2>1, <2>4
  <2> QED
    BY <2>1, <2>2, <2>3, <2>5 DEF IsPresetList
<1>3. Nat \subseteq S
  BY DEF S
<1> QED
  BY <1>2, <1>3, ListFindsItsOwn

------------------------------------------------------------------------------
LEMMA Bounds == /\ MaxRuns \in Nat /\ MaxLists \in Nat
                /\ 0 \in 0..MaxRuns /\ 0 \in 0..MaxLists
<1>1. MaxRuns \in Nat /\ MaxLists \in Nat
  BY PlaygroundAssumption, Zenon
<1> QED
  BY <1>1

\* A render keeps the number of requests for the list in its bounds.
LEMMA RenderTypes ==
  ASSUME NEW n \in 0..MaxLists, Render(n)
  PROVE  lists' \in 0..MaxLists /\ mounted' \in BOOLEAN
  BY PlaygroundAssumption DEF Render, Shown

\* A step that leaves the play page alone keeps its invariant.
LEMMA PlayUnchanged == PlayInv /\ UNCHANGED playVars => PlayInv'
<1> SUFFICES ASSUME PlayInv, UNCHANGED playVars PROVE PlayInv'
  OBVIOUS
<1>1. /\ lang' = lang /\ code' = code /\ stdin' = stdin /\ output' = output
      /\ rawJson' = rawJson /\ showRaw' = showRaw /\ loading' = loading
      /\ posts' = posts /\ runs' = runs /\ moved' = moved
  BY DEF playVars
<1>2. PostsWhatIsShown' /\ ShowsLastRun'
  BY <1>1, Zenon DEF PlayInv, PostsWhatIsShown, ShowsLastRun
<1> QED
  BY <1>1, <1>2, Zenon DEF PlayInv

\* A step that leaves the tests page alone keeps its invariant.
LEMMA TestsUnchanged == TestsInv /\ UNCHANGED testVars => TestsInv'
  BY DEF TestsInv, testVars

\* The empty page satisfies the invariant.
LEMMA FreshInv == (FreshPlay => PlayInv) /\ (FreshTests => TestsInv)
<1>1. ASSUME FreshPlay PROVE PlayInv
  <2>1. /\ output \in Outputs /\ posts \subseteq Bodies
        /\ code = [lang |-> "bash", text |-> TRUE]
    BY <1>1, Zenon DEF FreshPlay, Outputs
  <2>4. code \in Codes
    BY <2>1, PlaygroundAssumption, Zenon DEF Codes
  <2>5. rawJson = 0 /\ runs = 0 /\ 0 \in 0..MaxRuns
    BY <1>1, Bounds, Zenon DEF FreshPlay, NoJson
  <2>2. lang \in Langs /\ code.lang = lang
    BY <1>1, PlaygroundAssumption DEF FreshPlay
  <2>3. output = NoOutput /\ NoOutput.kind = "none"
    BY <1>1 DEF FreshPlay, NoOutput
  <2> QED
    BY <1>1, <2>1, <2>2, <2>3, <2>4, <2>5, Zenon
    DEF FreshPlay, PlayInv, PostsWhatIsShown, ShowsLastRun, NoJson
<1>2. ASSUME FreshTests PROVE TestsInv
  BY <1>2, PlaygroundAssumption, Zenon
  DEF FreshTests, TestsInv, TestOutputs, NoTestOutput
<1> QED
  BY <1>1, <1>2

LEMMA InitInv == Init => PInv
<1> SUFFICES ASSUME Init PROVE PInv
  OBVIOUS
<1>1. PlayInv /\ TestsInv
  BY FreshInv DEF Init
<1>2. RestInv
  BY Bounds, Zenon DEF Init, FreshPlay, FreshTests, RestInv
<1> QED
  BY <1>1, <1>2 DEF PInv

\* Each step of the play page, and each answer it gets, keeps PlayInv.
LEMMA PlaySteps ==
  ASSUME PlayInv
  PROVE  /\ \A l \in Langs : switchLang(l) => PlayInv'
         /\ loadPreset => PlayInv'
         /\ \A text \in BOOLEAN : EditCode(text) => PlayInv'
         /\ \A s \in {"", "typed"} : TypeStdin(s) => PlayInv'
         /\ ToggleRaw => PlayInv'
         /\ run => PlayInv'
         /\ \A p \in posts : AnswerRun(p) => PlayInv'
<1> USE DEF PlayInv, PostsWhatIsShown, ShowsLastRun, Codes, NoOutput, NoJson
<1>1. ASSUME NEW l \in Langs, switchLang(l) PROVE PlayInv'
  BY <1>1 DEF switchLang, LanguageSelect, Outputs
<1>2. ASSUME loadPreset PROVE PlayInv'
  <2>1. PICK q \in PresetSelect :
          /\ code' = [lang |-> lang, text |-> TRUE]
          /\ stdin' = IF q.stdin # Unset THEN q.stdin ELSE stdin
          /\ output' = NoOutput
          /\ UNCHANGED <<lang, rawJson, showRaw, loading, posts, runs, moved>>
    BY <1>2 DEF loadPreset
  <2>2. q.stdin \in {"", Unset}
    <3>1. lang \in LANGUAGES
      BY PlaygroundAssumption
    <3>2. PICK i \in DOMAIN PRESETS[lang] : q = PRESETS[lang][i]
      BY Zenon DEF PresetSelect
    <3> QED
      BY <3>1, <3>2, PresetStdin
  <2> QED
    BY <2>1, <2>2 DEF Outputs
<1>3. ASSUME NEW text \in BOOLEAN, EditCode(text) PROVE PlayInv'
  BY <1>3 DEF EditCode
<1>4. ASSUME NEW s \in {"", "typed"}, TypeStdin(s) PROVE PlayInv'
  BY <1>4 DEF TypeStdin, StdinField
<1>5. ASSUME ToggleRaw PROVE PlayInv'
  BY <1>5 DEF ToggleRaw
<1>6. ASSUME run PROVE PlayInv'
  <2> DEFINE b == [n |-> runs + 1, language |-> lang, source |-> code,
                   stdin |-> stdin]
  <2>1. posts = {} /\ posts' = {b}
    BY <1>6 DEF run, RunButton
  <2>2. runs + 1 \in 1..MaxRuns
    <3>1. runs < MaxRuns /\ runs \in 0..MaxRuns
      BY <1>6, Zenon DEF run
    <3> HIDE DEF PlayInv
    <3> QED
      BY <3>1, PlaygroundAssumption
  <2>3. b \in Bodies /\ b.n = runs'
    BY <1>6, <2>2 DEF run, Bodies
  <2>4. output' = NoOutput /\ NoOutput \in Outputs
    BY <1>6 DEF run, Outputs
  <2>5. /\ rawJson' = 0 /\ runs' = runs + 1 /\ showRaw' = FALSE
        /\ loading' = TRUE /\ moved' = FALSE
        /\ lang' = lang /\ code' = code /\ stdin' = stdin
    BY <1>6, Zenon DEF run
  <2>6. rawJson' \in 0..MaxRuns /\ runs' \in 0..MaxRuns
    <3> HIDE DEF PlayInv
    <3> QED
      BY <2>2, <2>5, Bounds
  <2>7. PostsWhatIsShown'
    <3>1. b.source = code /\ b.language = lang /\ b.stdin = stdin
      BY Zenon
    <3>2. b.source.lang = b.language /\ (b.stdin # "" => b.language \in hasStdin)
      BY <3>1, Zenon
    <3> HIDE DEF b
    <3> QED
      BY <2>1, <3>2, Zenon
  <2>8. ShowsLastRun'
    <3>1. NoOutput.kind = "none"
      OBVIOUS
    <3> QED
      BY <2>4, <2>5, <3>1, Zenon
  <2> QED
    BY <2>1, <2>3, <2>4, <2>5, <2>6, <2>7, <2>8, Zenon
<1>7. ASSUME NEW p \in posts, AnswerRun(p) PROVE PlayInv'
  <2>1. posts' = {} /\ loading' = FALSE
    BY <1>7 DEF AnswerRun
  <2>2. p \in Bodies /\ p.n = runs /\ p.n \in 1..MaxRuns /\ p.language \in Langs
    BY DEF Bodies
  <2>3. PICK k \in Answers : output' = [n |-> p.n, lang |-> p.language, kind |-> k]
    BY <1>7 DEF AnswerRun, AuthMiddleware, HandleRun, Answers
  <2>4. output' \in Outputs /\ output'.n = runs /\ output'.lang = p.language
    BY <2>2, <2>3 DEF Outputs
  <2>5. rawJson' \in {p.n, rawJson}
        /\ (output'.kind # "failed" => rawJson' = p.n)
    BY <1>7, <2>3, Zenon DEF AnswerRun
  <2> QED
    BY <1>7, <2>1, <2>2, <2>3, <2>4, <2>5 DEF AnswerRun
<1> QED
  BY <1>1, <1>2, <1>3, <1>4, <1>5, <1>6, <1>7

\* Each step of the tests page, and each answer it gets, keeps TestsInv.
LEMMA TestsSteps ==
  ASSUME TestsInv
  PROVE  /\ \A f \in Filters : TypeFilter(f) => TestsInv'
         /\ \A tc \in TestCases : SelectTest(tc) => TestsInv'
         /\ runTestcase => TestsInv'
         /\ \A tc \in testPosts : AnswerTest(tc) => TestsInv'
<1> USE DEF TestsInv, NoTestOutput, TestOutputs
<1>1. ASSUME NEW f \in Filters, TypeFilter(f) PROVE TestsInv'
  BY <1>1, Zenon DEF TypeFilter
<1>2. ASSUME NEW tc \in TestCases, SelectTest(tc) PROVE TestsInv'
  BY <1>2, Zenon DEF SelectTest
<1>3. ASSUME runTestcase PROVE TestsInv'
  <2>1. selectedTc \in TestCases /\ testPosts = {}
    BY <1>3, Zenon DEF runTestcase, RunTestButton
  <2>2. testPosts' = {selectedTc}
    BY <1>3, <2>1, Zenon DEF runTestcase
  <2> QED
    BY <1>3, <2>1, <2>2, Zenon DEF runTestcase
<1>4. ASSUME NEW tc \in testPosts, AnswerTest(tc) PROVE TestsInv'
  <2>1. testPosts' = {}
    BY <1>4, Zenon DEF AnswerTest
  <2>2. testOutput' = [tc |-> tc, kind |-> "failed"]
    BY <1>4 DEF AnswerTest, TestcaseEntry
  <2>3. testOutput' \in TestOutputs /\ testOutput'.tc = tc
    BY <2>2, Zenon
  <2> QED
    BY <1>4, <2>1, <2>3, Zenon DEF AnswerTest
<1> QED
  BY <1>1, <1>2, <1>3, <1>4, Zenon

\* Every step keeps the types of the rest.
LEMMA RestSteps == RestInv /\ [Next]_vars => RestInv'
<1> SUFFICES ASSUME RestInv, [Next]_vars PROVE RestInv'
  OBVIOUS
<1>1. /\ page' \in {"play", "bench", "tests"} /\ conf' \in Confs
      /\ listLost' \in BOOLEAN
      /\ testcases' \in {"empty"} \union HandleTestcasesList
  BY Zenon DEF
     RestInv, vars, Next, UserStep, Answer, Reload, OpenPage, BackFromTests,
     BackFromBench, switchLang, loadPreset, EditCode, TypeStdin, ToggleRaw,
     run, AnswerRun, TypeFilter, SelectTest, runTestcase, AnswerTest,
     AnswerList, LoseList, playRest, testRest, Render, Shown
<1>2. \/ Render(lists) \/ (lists > 0 /\ Render(lists - 1))
      \/ lists' = 0 /\ mounted' = TRUE
      \/ lists > 0 /\ lists' = lists - 1 /\ mounted' = mounted
      \/ lists' = lists /\ mounted' = mounted
  BY Zenon DEF
     RestInv, vars, Next, UserStep, Answer, Reload, OpenPage, BackFromTests,
     BackFromBench, switchLang, loadPreset, EditCode, TypeStdin, ToggleRaw,
     run, AnswerRun, TypeFilter, SelectTest, runTestcase, AnswerTest,
     AnswerList, LoseList, playRest, testRest
<1>3. lists \in 0..MaxLists /\ mounted \in BOOLEAN
  BY Zenon DEF RestInv
<1>4. lists > 0 => lists - 1 \in 0..MaxLists
  BY <1>3, Bounds
<1>5. lists' \in 0..MaxLists /\ mounted' \in BOOLEAN
  BY <1>2, <1>3, <1>4, Bounds, RenderTypes, Zenon
<1> QED
  BY <1>1, <1>5, Zenon DEF RestInv

\* Every step keeps the invariant.
LEMMA NextInv == PInv /\ [Next]_vars => PInv'
<1> SUFFICES ASSUME PInv, [Next]_vars PROVE PInv'
  OBVIOUS
<1>1. RestInv'
  BY RestSteps, Zenon DEF PInv
<1>2. CASE Reload
  <2>1. FreshPlay' /\ FreshTests'
    BY <1>2, Zenon DEF Reload, FreshPlay, FreshTests
  <2>2. (FreshPlay => PlayInv)' /\ (FreshTests => TestsInv)'
    BY FreshInv, PTL
  <2> QED
    BY <2>1, <2>2, <1>1, Zenon DEF PInv
<1>3. CASE UserStep
  <2>1. PlayInv'
    BY <1>3, PlaySteps, PlayUnchanged, Zenon
    DEF PInv, UserStep, OpenPage, BackFromTests, BackFromBench, TypeFilter,
        SelectTest, runTestcase, testRest
  <2>2. TestsInv'
    BY <1>3, TestsSteps, TestsUnchanged, Zenon
    DEF PInv, UserStep, OpenPage, BackFromTests, BackFromBench, switchLang,
        loadPreset, EditCode, TypeStdin, ToggleRaw, run, playRest
  <2> QED
    BY <1>1, <2>1, <2>2 DEF PInv
<1>4. CASE Answer
  <2>1. PlayInv'
    BY <1>4, PlaySteps, PlayUnchanged, Zenon
    DEF PInv, Answer, AnswerTest, AnswerList, LoseList, testRest
  <2>2. TestsInv'
    BY <1>4, TestsSteps, TestsUnchanged, Zenon
    DEF PInv, Answer, AnswerRun, AnswerList, LoseList, playRest
  <2> QED
    BY <1>1, <2>1, <2>2 DEF PInv
<1>5. CASE UNCHANGED vars
  BY <1>1, <1>5, PlayUnchanged, TestsUnchanged, Zenon DEF PInv, vars
<1> QED
  BY <1>2, <1>3, <1>4, <1>5 DEF Next

------------------------------------------------------------------------------
(* Type correctness: every value the component's state and the requests in   *)
(* flight take is of the kind the handlers expect.                           *)
THEOREM TypeCorrect == Spec => []TypeOK
<1>1. PInv => TypeOK
  BY Zenon DEF PInv, PlayInv, TestsInv, RestInv, TypeOK
<1> QED
  BY <1>1, InitInv, NextInv, PTL DEF Spec

(* switchLang, loadPreset, the editor and the stdin field keep the language, *)
(* the source and the input together, so run never posts a source of another *)
(* language or an input that the page does not show.                         *)
THEOREM PostsAreShown == Spec => []PostsWhatIsShown
<1>1. PInv => PostsWhatIsShown
  BY DEF PInv, PlayInv
<1> QED
  BY <1>1, InitInv, NextInv, PTL DEF Spec

(* The disabled run button is enough: no answer, however late, overwrites    *)
(* the answer to a later run.                                                *)
THEOREM LastRunIsShown == Spec => []ShowsLastRun
<1>1. PInv => ShowsLastRun
  BY DEF PInv, PlayInv
<1> QED
  BY <1>1, InitInv, NextInv, PTL DEF Spec

(* A result stands under a selection it was not computed for only if the     *)
(* selection changed while its request was in flight.                        *)
THEOREM StaleOnlyInFlight == Spec => []StaleOnlyIfMovedInFlight
<1>1. PInv => StaleOnlyIfMovedInFlight
  BY Zenon DEF PInv, PlayInv, TestsInv, StaleOnlyIfMovedInFlight
<1> QED
  BY <1>1, InitInv, NextInv, PTL DEF Spec

(* flattenPresets numbers repeated labels so that no two options share a     *)
(* name, and find returns the preset that the user picked, in every language *)
(* and for lists whose labels repeat or look numbered already.               *)
THEOREM OptionsFindTheirPresets == Spec => []OptionFindsItsPreset
<1>1. PInv => lang \in LANGUAGES
  BY PlaygroundAssumption, Zenon DEF PInv, PlayInv
<1>2. PInv => OptionFindsItsPreset
  BY <1>1, TableFindsItsOwn, AwkwardListsFind, Zenon DEF OptionFindsItsPreset
<1> QED
  BY <1>2, InitInv, NextInv, PTL DEF Spec
=============================================================================
