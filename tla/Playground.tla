----------------------------- MODULE Playground -----------------------------
(***************************************************************************)
(* The web playground (playground/src/App.tsx): one React component with   *)
(* three pages, the requests it has in flight, and what the server says    *)
(* to them (internal/api/auth.go, testcases.go).                           *)
(*                                                                         *)
(* A handler's state updates take effect together, in one render, so a     *)
(* click is one step and so is an answer: nothing is set between the two   *)
(* awaits.  The component never unmounts while the user changes pages, so  *)
(* an answer may find any page and any selection.  An element that is on   *)
(* the screen and enabled is an operator, the guard of what it triggers.   *)
(***************************************************************************)
EXTENDS Naturals, Sequences, FiniteSets

CONSTANTS Langs,      \* the languages the user picks from, a part of the table
          TestCases,  \* the test cases the server has
          Filters,    \* what the filter field may hold: the tests it matches
          Confs,      \* the server's GOBOXD_AUTH_TOKEN and _ALLOWED_ORIGINS
          MaxRuns,    \* bound: runs of the play page between two reloads
          MaxLists    \* bound: GET /testcases in flight

NoTest == "none"

VARIABLES
  page, mounted,           \* the page, and FALSE once a render has thrown
  lang, code, stdin,       \* what the user edits
  output, rawJson, showRaw, loading,
  posts,                   \* the POST /run of the play page in flight
  runs, moved,             \* history: runs started; switched language meanwhile
  testcases, selectedTc, tcFilter, testOutput, testLoading,
  testPosts,               \* the POST /run of the tests page in flight
  testMoved,               \* history, as moved
  lists, listLost,         \* GET /testcases in flight; history: one was lost
                           \* since the last render
  conf                     \* the server's configuration

playVars == <<lang, code, stdin, output, rawJson, showRaw, loading, posts,
              runs, moved>>
testVars == <<selectedTc, tcFilter, testOutput, testLoading, testPosts,
              testMoved>>
vars == <<page, mounted, playVars, testVars, testcases, lists, listLost, conf>>

------------------------------------------------------------------------------
(* The tables.  Of a source the model keeps its language and whether it is   *)
(* empty, of a language whether it shows a stdin field, and of a preset its  *)
(* label and its stdin: every preset that has a stdin has an empty one.      *)

LANGUAGES == {"bash", "c", "cpp", "d", "erl", "go", "haskell", "java", "js",
              "lisp", "lua", "ocaml", "perl", "py3", "r", "rust", "verilog"}
hasStdin == {"js", "py3", "r"}

ASSUME PlaygroundAssumption ==
  /\ "bash" \in Langs /\ Langs \subseteq LANGUAGES
  /\ NoTest \notin TestCases
  /\ TestCases \in Filters
  /\ Filters \subseteq SUBSET TestCases
  /\ Confs \subseteq [token : BOOLEAN, originListed : BOOLEAN]
  /\ MaxRuns \in Nat
  /\ MaxLists \in Nat

Unset == "undefined"

\* A label is a sequence, so that "x (2)" can be told from other names.
Presets(withStdin, without) ==
  [i \in 1..(Len(withStdin) + Len(without)) |->
     IF i <= Len(withStdin)
     THEN [label |-> <<withStdin[i]>>, stdin |-> ""]
     ELSE [label |-> <<without[i - Len(withStdin)]>>, stdin |-> Unset]]

hello == <<"hello world">>

PRESETS ==
  [py3 |-> Presets(<<"hello world", "fibonacci">>,
             <<"[bad] infinite loop", "[bad] memory bomb",
               "[bad] recursion depth", "[lc easy] two sum",
               "[lc easy] fizzbuzz", "[lc medium] reverse linked list",
               "[lc medium] valid parentheses">>),
   c |-> Presets(hello, <<"fibonacci", "[bad] segfault", "[bad] infinite loop",
                          "[bad] stack overflow", "[bad] buffer overflow">>),
   cpp |-> Presets(hello, <<"[bad] segfault", "[bad] infinite loop",
                            "[bad] abort">>),
   java |-> Presets(hello, <<"MemoryHog 10MB", "[bad] null pointer",
                             "[bad] infinite loop", "[bad] stack overflow">>),
   bash |-> Presets(<<"hello world", "count">>, <<"[bad] fork bomb">>),
   js |-> Presets(hello, <<"fibonacci", "[bad] infinite loop",
                           "[bad] memory bomb">>),
   verilog |-> Presets(hello, <<"counter">>),
   rust |-> Presets(hello, <<"fibonacci", "fizzbuzz", "[bad] panic",
                             "[bad] infinite loop", "[bad] stack overflow">>),
   go |-> Presets(hello, <<"fibonacci", "fizzbuzz", "[bad] nil deref",
                           "[bad] infinite loop">>),
   haskell |-> Presets(hello, <<"fibonacci", "[bad] infinite loop">>),
   ocaml |-> Presets(hello, <<"fibonacci", "[bad] division by zero">>),
   r |-> Presets(hello, <<"fibonacci", "mean", "[bad] crash">>),
   d |-> Presets(hello, <<"fibonacci", "[bad] null deref">>),
   lua |-> Presets(hello, <<"fibonacci", "[bad] infinite loop",
                            "[bad] crash">>),
   perl |-> Presets(hello, <<"fibonacci", "[bad] crash">>),
   erl |-> Presets(hello, <<"fibonacci", "[bad] crash">>),
   lisp |-> Presets(hello, <<"fibonacci", "[bad] crash">>)]

\* A repeated label gets the number 2, whether or not that name is taken.
FreeNameSecond(label, names) == IF label \notin names THEN label
                                                      ELSE Append(label, 2)

\* The label, or the label with the first free number from 2.
FreeName(label, names) ==
  IF label \notin names
  THEN label
  ELSE Append(label, CHOOSE k \in 2..(Cardinality(names) + 2) :
                       /\ Append(label, k) \notin names
                       /\ \A m \in 2..(k - 1) : Append(label, m) \in names)

flattenPresets(presets) ==
  LET flat[i \in 0..Len(presets)] ==
        IF i = 0
        THEN <<>>
        ELSE LET result == flat[i - 1]
                 taken == {result[k].name : k \in DOMAIN result}
             IN  Append(result, [name |-> FreeName(presets[i].label, taken),
                                 preset |-> presets[i]])
  IN  flat[Len(presets)]

------------------------------------------------------------------------------
NoOutput == [n |-> 0, lang |-> "", kind |-> "none"]
NoJson == 0
NoTestOutput == [tc |-> NoTest, kind |-> "none"]

FreshPlay ==
  /\ lang = "bash" /\ code = [lang |-> "bash", text |-> TRUE]
  /\ stdin = "" /\ output = NoOutput /\ rawJson = NoJson /\ showRaw = FALSE
  /\ loading = FALSE /\ page = "play"
  /\ posts = {} /\ runs = 0 /\ moved = FALSE

FreshTests ==
  /\ testcases = "empty" /\ selectedTc = NoTest /\ testOutput = NoTestOutput
  /\ testLoading = FALSE /\ tcFilter = TestCases
  /\ testPosts = {} /\ testMoved = FALSE
  /\ lists = 0 /\ listLost = FALSE

Init == FreshPlay /\ FreshTests /\ mounted = TRUE /\ conf \in Confs

\* A render throws if the list is no array; there is no error boundary.
Shown ==
  /\ mounted' = ~(page' = "tests" /\ testcases' \in {"null", "error"})
  /\ listLost' = FALSE

\* A render after a lost request gives up.
RenderAsksOnce(pending) ==
  /\ lists' = IF /\ page' = "tests" /\ testcases' = "empty"
                /\ pending < MaxLists /\ ~listLost
              THEN pending + 1 ELSE pending
  /\ Shown

\* Every render of the tests page asks for the list again while it is empty.
\* `pending` is the number of requests for it still in flight, counted up to
\* MaxLists.
Render(pending) ==
  /\ lists' = IF /\ page' = "tests" /\ testcases' = "empty"
                /\ pending < MaxLists
              THEN pending + 1 ELSE pending
  /\ Shown

\* External: the user loads the page anew, and the browser drops its requests.
Reload ==
  /\ lang' = "bash" /\ code' = [lang |-> "bash", text |-> TRUE]
  /\ stdin' = "" /\ output' = NoOutput /\ rawJson' = NoJson /\ showRaw' = FALSE
  /\ loading' = FALSE /\ page' = "play"
  /\ posts' = {} /\ runs' = 0 /\ moved' = FALSE
  /\ testcases' = "empty" /\ selectedTc' = NoTest /\ testOutput' = NoTestOutput
  /\ testLoading' = FALSE /\ tcFilter' = TestCases
  /\ testPosts' = {} /\ testMoved' = FALSE
  /\ lists' = 0 /\ listLost' = FALSE /\ mounted' = TRUE
  /\ UNCHANGED conf

------------------------------------------------------------------------------
(* Navigation *)

OpenPage(p) == /\ page = "play" /\ p \in {"bench", "tests"}
               /\ page' = p
               /\ UNCHANGED <<playVars, testVars, testcases, conf>>
               /\ Render(lists)

BackFromTests == /\ page = "tests"
                 /\ page' = "play"
                 /\ UNCHANGED <<playVars, testVars, testcases, conf>>
                 /\ Render(lists)

BackFromBench == /\ page = "bench"
                 /\ page' = "play"
                 /\ UNCHANGED <<playVars, testVars, testcases, conf>>
                 /\ Render(lists)

------------------------------------------------------------------------------
(* The play page *)

playRest == <<page, testVars, testcases, conf>>

LanguageSelect == IF page = "play" THEN Langs ELSE {}
PresetSelect == IF page = "play" THEN {PRESETS[lang][i] : i \in DOMAIN PRESETS[lang]}
                                 ELSE {}
CodeEditor == page = "play"
StdinField == page = "play" /\ lang \in hasStdin

\* The button can be pressed while a run is under way.
RunButtonAlways == page = "play"

RunButton == page = "play" /\ ~loading
RawButton == page = "play" /\ output # NoOutput /\ rawJson # NoJson

\* What the user typed for another language stays.
switchLangKeepsStdin(l) ==
  /\ l \in LanguageSelect \ {lang}
  /\ lang' = l
  /\ code' = [lang |-> l, text |-> TRUE]
  /\ output' = NoOutput
  /\ moved' = loading
  /\ UNCHANGED <<stdin, rawJson, showRaw, loading, posts, runs, playRest>>
  /\ Render(lists)

\* The result of the old language stays.
switchLangKeepsOutput(l) ==
  /\ l \in LanguageSelect \ {lang}
  /\ lang' = l
  /\ code' = [lang |-> l, text |-> TRUE]
  /\ stdin' = ""
  /\ moved' = loading
  /\ UNCHANGED <<output, rawJson, showRaw, loading, posts, runs, playRest>>
  /\ Render(lists)

switchLang(l) ==
  /\ l \in LanguageSelect \ {lang}
  /\ lang' = l
  /\ code' = [lang |-> l, text |-> TRUE]
  /\ stdin' = ""
  /\ output' = NoOutput
  /\ moved' = loading
  /\ UNCHANGED <<rawJson, showRaw, loading, posts, runs, playRest>>
  /\ Render(lists)

loadPreset ==
  \E p \in PresetSelect :
    /\ code' = [lang |-> lang, text |-> TRUE]
    /\ stdin' = IF p.stdin # Unset THEN p.stdin ELSE stdin
    /\ output' = NoOutput
    /\ UNCHANGED <<lang, rawJson, showRaw, loading, posts, runs, moved, playRest>>
    /\ Render(lists)

EditCode(text) ==
  /\ CodeEditor
  /\ code' = [lang |-> lang, text |-> text]
  /\ UNCHANGED <<lang, stdin, output, rawJson, showRaw, loading, posts, runs,
                 moved, playRest>>
  /\ Render(lists)

TypeStdin(s) ==
  /\ StdinField
  /\ stdin' = s
  /\ UNCHANGED <<lang, code, output, rawJson, showRaw, loading, posts, runs,
                 moved, playRest>>
  /\ Render(lists)

ToggleRaw ==
  /\ RawButton
  /\ showRaw' = ~showRaw
  /\ UNCHANGED <<lang, code, stdin, output, rawJson, loading, posts, runs,
                 moved, playRest>>
  /\ Render(lists)

\* run, up to its first await: the closure keeps what it sent.
run ==
  /\ RunButton
  /\ runs < MaxRuns
  /\ runs' = runs + 1
  /\ loading' = TRUE
  /\ output' = NoOutput
  /\ rawJson' = NoJson
  /\ showRaw' = FALSE
  /\ posts' = posts \union {[n |-> runs + 1, language |-> lang,
                             source |-> code, stdin |-> stdin]}
  /\ moved' = FALSE
  /\ UNCHANGED <<lang, code, stdin, playRest>>
  /\ Render(lists)

\* The answers AuthMiddleware gives instead of the handler.  The browser sends
\* an Origin with every POST and the playground no token.
AuthMiddleware(handler) ==
  IF conf.token THEN {"unauthorized"}
  ELSE IF ~conf.originListed THEN {"forbidden_origin"}
  ELSE handler

\* HandleRun's answer to a body of the play page: a status, or an error, which
\* an empty source always gets.
HandleRun(body) == IF body.source.text THEN {"status", "error"} ELSE {"error"}

\* run, after its awaits; "failed" is the catch, for a lost request.
AnswerRun(p) ==
  /\ \/ \E answer \in AuthMiddleware(HandleRun(p)) :
          /\ rawJson' = p.n
          /\ output' = [n |-> p.n, lang |-> p.language, kind |-> answer]
     \/ /\ output' = [n |-> p.n, lang |-> p.language, kind |-> "failed"]
        /\ UNCHANGED rawJson
  /\ loading' = FALSE
  /\ posts' = posts \ {p}
  /\ UNCHANGED <<lang, code, stdin, showRaw, runs, moved, playRest>>
  /\ Render(lists)

------------------------------------------------------------------------------
(* The tests page *)

testRest == <<page, playVars, conf>>

\* Of a test case GET /testcases sends the lang and the name; input and want
\* are left to GET /testcases/{lang}/{name}, which the page never asks for.
TestcaseEntry == {"lang", "name"}

\* What GET /testcases answers: the list, the null that a nil slice encodes to
\* when there is none, or the body of a 500.
HandleTestcasesList == {"list", "null", "error"}

TestList == IF page = "tests" /\ testcases = "list" THEN tcFilter ELSE {}
FilterField == page = "tests"

RunTestButton == page = "tests" /\ selectedTc # NoTest /\ ~testLoading

AnswerList ==
  /\ lists > 0
  /\ testcases' \in HandleTestcasesList
  /\ UNCHANGED <<testRest, testVars>>
  /\ Render(lists - 1)

\* The catch sets nothing, so nothing is rendered and nothing asked again.
LoseList ==
  /\ lists > 0
  /\ lists' = lists - 1
  /\ listLost' = TRUE
  /\ UNCHANGED <<mounted, testRest, testVars, testcases>>

TypeFilter(f) ==
  /\ FilterField
  /\ f \in Filters \ {tcFilter}
  /\ tcFilter' = f
  /\ UNCHANGED <<testRest, selectedTc, testOutput, testLoading, testPosts,
                 testMoved, testcases>>
  /\ Render(lists)

SelectTest(tc) ==
  /\ tc \in TestList
  /\ selectedTc' = tc
  /\ testOutput' = NoTestOutput
  /\ testMoved' = (testLoading /\ (testMoved \/ tc # selectedTc))
  /\ UNCHANGED <<testRest, tcFilter, testLoading, testPosts,
                 testcases>>
  /\ Render(lists)

\* runTestcase, up to its first await.
runTestcase ==
  /\ RunTestButton
  /\ testLoading' = TRUE
  /\ testOutput' = NoTestOutput
  /\ testPosts' = testPosts \union {selectedTc}
  /\ testMoved' = FALSE
  /\ UNCHANGED <<testRest, selectedTc, tcFilter, testcases>>
  /\ Render(lists)

\* A throw leaves runTestcase.
AnswerTestThrows(tc) ==
  /\ testOutput' = [tc |-> tc, kind |-> "failed"]
  /\ testPosts' = testPosts \ {tc}
  /\ UNCHANGED <<testRest, selectedTc, tcFilter, testLoading, testMoved,
                 testcases>>
  /\ Render(lists)

\* runTestcase, after its awaits: what the answer is compared with is the
\* want of the test case, and reading one that is not there throws.
AnswerTest(tc) ==
  /\ testOutput' \in {[tc |-> tc, kind |-> k] :
                        k \in {"failed"} \union
                             (IF "want" \in TestcaseEntry THEN {"compared"}
                                                          ELSE {})}
  /\ testLoading' = FALSE
  /\ testPosts' = testPosts \ {tc}
  /\ UNCHANGED <<testRest, selectedTc, tcFilter, testMoved,
                 testcases>>
  /\ Render(lists)

------------------------------------------------------------------------------
UserStep == \/ \E p \in {"bench", "tests"} : OpenPage(p)
            \/ BackFromTests \/ BackFromBench
            \/ \E l \in Langs : switchLang(l)
            \/ loadPreset
            \/ \E text \in BOOLEAN : EditCode(text)
            \/ \E s \in {"", "typed"} : TypeStdin(s)
            \/ ToggleRaw \/ run
            \/ \E f \in Filters : TypeFilter(f)
            \/ \E tc \in TestCases : SelectTest(tc)
            \/ runTestcase

Answer == \/ \E p \in posts : AnswerRun(p)
          \/ \E tc \in testPosts : AnswerTest(tc)
          \/ AnswerList \/ LoseList

Next == \/ mounted /\ (UserStep \/ Answer)
        \/ Reload

Spec == Init /\ [][Next]_vars

\* Every request is answered or fails: the server's runs end (RunPipeline)
\* and the browser notices a lost connection.
Fairness == /\ WF_vars(mounted /\ \E p \in posts : AnswerRun(p))
            /\ WF_vars(mounted /\ \E tc \in testPosts : AnswerTest(tc))
            /\ WF_vars(mounted /\ (AnswerList \/ LoseList))

FairSpec == Spec /\ Fairness

------------------------------------------------------------------------------
Answers == {"status", "error", "unauthorized", "forbidden_origin", "failed"}
Codes == [lang : Langs, text : BOOLEAN]
Outputs == {NoOutput} \union [n : 1..MaxRuns, lang : Langs, kind : Answers]
Bodies == [n : 1..MaxRuns, language : Langs, source : Codes,
           stdin : {"", "typed"}]
TestOutputs == {NoTestOutput} \union
                 [tc : TestCases, kind : {"failed", "compared"}]

\* Every variable has its type.
TypeOK ==
  /\ page \in {"play", "bench", "tests"} /\ mounted \in BOOLEAN
  /\ lang \in Langs /\ code \in Codes /\ stdin \in {"", "typed"}
  /\ output \in Outputs /\ rawJson \in 0..MaxRuns
  /\ showRaw \in BOOLEAN /\ loading \in BOOLEAN
  /\ posts \subseteq Bodies /\ runs \in 0..MaxRuns /\ moved \in BOOLEAN
  /\ testcases \in {"empty"} \union HandleTestcasesList
  /\ selectedTc \in {NoTest} \union TestCases /\ tcFilter \in Filters
  /\ testOutput \in TestOutputs /\ testLoading \in BOOLEAN
  /\ testPosts \subseteq TestCases
  /\ testMoved \in BOOLEAN
  /\ lists \in 0..MaxLists /\ listLost \in BOOLEAN
  /\ conf \in Confs

(* What is posted is what the user could see: the source was written for the *)
(* language it is sent with, and stdin is sent only if the language shows a  *)
(* stdin field.  Languages, presets and edits in any order must keep the     *)
(* three pieces of state together, because run sends stdin for every         *)
(* language.                                                                 *)
PostsWhatIsShown ==
  \A p \in posts : /\ p.source.lang = p.language
                   /\ p.stdin # "" => p.language \in hasStdin

(* What is shown is the answer to the last run that was started, in either   *)
(* form (the text and the raw JSON behind it), never that of an earlier one, *)
(* and nothing is shown while a run is under way.  Nothing but the disabled  *)
(* button keeps a second request, answered first, from being overwritten by  *)
(* a late answer to the first.                                               *)
ShowsLastRun ==
  /\ output # NoOutput => output.n = runs /\ ~loading
  /\ rawJson # NoJson => rawJson = runs /\ ~loading
  /\ output.kind \notin {"none", "failed"} => rawJson = output.n

(* A result stands under another language, or another test, than the one it  *)
(* was computed for only if the user changed the selection while the request *)
(* was in flight: every other change of selection clears it.                 *)
StaleOnlyIfMovedInFlight ==
  /\ output # NoOutput /\ output.lang # lang => moved
  /\ testOutput # NoTestOutput /\ testOutput.tc # selectedTc => testMoved

Find(flat, name) == CHOOSE i \in DOMAIN flat :
                      /\ flat[i].name = name
                      /\ \A k \in 1..(i - 1) : flat[k].name # name

EachFindsItsOwn(presets) ==
  LET flat == flattenPresets(presets)
  IN  /\ Len(flat) = Len(presets)
      /\ \A i \in DOMAIN flat : /\ Find(flat, flat[i].name) = i
                                /\ flat[i].preset = presets[i]

\* Lists whose labels repeat, or look like numbered ones.
AwkwardLists ==
  {[i \in DOMAIN labels |-> [label |-> labels[i], stdin |-> Unset]] :
     labels \in UNION {[1..k -> {<<"a">>, <<"a", 2>>, <<"b">>}] : k \in 0..4}}

AwkwardListsWork == \A presets \in AwkwardLists : EachFindsItsOwn(presets)

(* The preset field hands the handler a name, and find takes the first       *)
(* preset of that name: each option of the field on the screen finds its own *)
(* preset, and would if the labels of the table repeated (looked at once, in *)
(* the first render).                                                        *)
OptionFindsItsPreset ==
  /\ page = "play" => EachFindsItsOwn(PRESETS[lang])
  /\ Init => AwkwardListsWork

(* A button that shows running... becomes usable again, whatever happens to  *)
(* the request and whatever page the user is on, unless the page is gone.    *)
EveryRunSettles == /\ loading ~> ~loading \/ ~mounted
                   /\ testLoading ~> ~testLoading \/ ~mounted

(* The tests page gets its list, although no effect and no retry asks for    *)
(* it, only its renders, unless the last request was lost and nothing has    *)
(* been rendered since, or the answer was none and the page is gone: null if *)
(* there is no test case, the body of a 500 if they cannot be read.          *)
TestsPageLoads == page = "tests" ~> \/ testcases = "list" \/ page # "tests"
                                    \/ listLost \/ ~mounted
=============================================================================
